---- MODULE Spec2Model ----
(***************************************************************************)
(* A model of the LaTeX/TikZ diagram generator: the path from a spec       *)
(* (groups and links) through DiagramGenerator.generate_latex, i.e. the    *)
(* layering, ordering and row placement of                                 *)
(* LayoutEngine.compute_layout_bottom_up_arrow_aware, then conflict        *)
(* resolution and position overrides.                                      *)
(*                                                                         *)
(* Coordinates are kept in tenths of a layout unit: every coordinate the   *)
(* code computes is a sum of multiples of 0.1 (2.5, 2.6, 2.0, 1.0, 1.5),   *)
(* so 2.5 is 25, 2.6 is 26 and 40.0 is 400.                                *)
(***************************************************************************)
EXTENDS Integers, Sequences, FiniteSets, TLC

VARIABLES
    pc,                 \* position of the run
    err,                \* the exception that ended the run, or "none"
    text,               \* the text-format input still to be parsed (or NoText)
    groups,             \* spec['groups']: the groups in declaration order
    links,              \* spec['links']: <<source, target>> in dict order
    element_to_group,   \* DiagramGenerator.element_to_group
    group_layer,        \* layering: group (or standalone element) -> layer
    changed,            \* the flag of the relaxation loop
    layers,             \* layers[k+1]: the groups of layer k, in order
    layer_idx,          \* index (0-based) of the layer being placed
    perm_idx,           \* number of orderings of the layer already tried
    best_order,         \* ordering kept by the permutation search
    min_crossings,      \* its crossing count (Infinity before any trial)
    rows,               \* the rows the current layer was split into
    levels,             \* group -> y
    positions,          \* group -> [x, elements]
    node_positions,     \* element -> [x, y]
    placed,             \* the keys of positions, in insertion order
    iteration,          \* passes of conflict resolution already run
    detections          \* the conflict-detection passes run so far, in order

vars == <<pc, err, text, groups, links, element_to_group, group_layer, changed,
          layers, layer_idx, perm_idx, best_order, min_crossings, rows, levels,
          positions, node_positions, placed, iteration, detections>>

(***************************************************************************)
(* Program constants                                                       *)
(***************************************************************************)
WITHIN_GROUP_SPACING == 25

BETWEEN_GROUP_SPACING == 26

\* TEXT_WIDTH = 0.64, in hundredths of a unit
TEXT_WIDTH == 64

\* TEXT_HEIGHT = 0.3, in hundredths of a unit
TEXT_HEIGHT == 30

\* the y offset of the anchor of an underlined group's arrow, 0.3
SouthAnchorOffset == 3

\* the shift of a text-overlap resolution, 1.0
OverlapShift == 10

\* max_iterations of resolve_conflicts_iteratively
max_iterations == 10

MAX_X_POSITION == 400

y_spacing == 20

PermSearchMax == 8

(***************************************************************************)
(* Bounds of the model                                                     *)
(***************************************************************************)
MaxGroups == 2

MaxLinks == 2

(***************************************************************************)
(* Generic helpers                                                         *)
(***************************************************************************)
Range(s) == {s[i] : i \in DOMAIN s}

EmptyMap == [x \in {} |-> 0]

Put(f, k, v) == [x \in (DOMAIN f) \cup {k} |-> IF x = k THEN v ELSE f[x]]

MaxOf(S) == CHOOSE m \in S : \A n \in S : n <= m

MinOf(S) == CHOOSE m \in S : \A n \in S : m <= n

Infinity == 1000000

Separators == {"+", "-", "|"}

NoText == [group_lines |-> <<>>, link_lines |-> <<>>, present |-> FALSE]

NoOverride == <<>>

\* the exception that ended the run: its type and what its message lists
NoError == [type |-> "none", labels |-> {}, groups |-> {}, arrows |-> {}]

Raised(type, labels, gnames, arrows) ==
    [type |-> type, labels |-> labels, groups |-> gnames, arrows |-> arrows]

(***************************************************************************)
(* Groups.  A group without an 'elements' key is its own single element.   *)
(***************************************************************************)
Single(label) ==
    [name |-> label, has_elements |-> FALSE, elements |-> <<>>,
     underline |-> FALSE, override |-> NoOverride]

Multi(name, elems, ul) ==
    [name |-> name, has_elements |-> TRUE, elements |-> elems,
     underline |-> ul, override |-> NoOverride]

\* group.get('elements', [group_name])
Elements(g) == IF g.has_elements THEN g.elements ELSE <<g.name>>

GroupNames(gs) == {gs[i].name : i \in DOMAIN gs}

\* group_name_to_group[name]: the last group declared under that name
GroupNamed(gs, n) == gs[MaxOf({i \in DOMAIN gs : gs[i].name = n})]

\* list(group_name_to_group.keys()): names in order of first declaration
RECURSIVE InputOrderFrom(_, _)
InputOrderFrom(gs, i) ==
    IF i > Len(gs) THEN <<>>
    ELSE IF \E j \in 1..(i-1) : gs[j].name = gs[i].name
         THEN InputOrderFrom(gs, i + 1)
         ELSE <<gs[i].name>> \o InputOrderFrom(gs, i + 1)

group_input_order(gs) == InputOrderFrom(gs, 1)

\* the keys a group writes into element_to_group
MapKeys(g) == IF g.has_elements THEN Range(g.elements) ELSE {g.name}

\* DiagramGenerator.__init__: each element maps to the last group listing it
BuildElementToGroup(gs) ==
    [e \in UNION {MapKeys(gs[i]) : i \in DOMAIN gs} |->
        gs[MaxOf({i \in DOMAIN gs : e \in MapKeys(gs[i])})].name]

(***************************************************************************)
(* The inputs.  A text-format input is a list of group lines and a list of *)
(* link lines; a normalized spec is a list of groups and a link map.       *)
(***************************************************************************)
GroupLine(br, toks, ul) == [bracket |-> br, tokens |-> toks, underline |-> ul]

GroupLineChoices ==
    { GroupLine(FALSE, <<"a">>, FALSE),
      GroupLine(FALSE, <<"b">>, FALSE),
      GroupLine(TRUE, <<"p", "+", "q">>, TRUE),
      GroupLine(TRUE, <<"a", "d">>, FALSE),
      GroupLine(TRUE, <<"w1", "w2", "w3", "w4", "w5", "w6", "w7", "w8", "w9">>, FALSE),
      GroupLine(TRUE, <<"v1", "v2", "v3", "v4", "v5", "v6", "v7", "v8", "v9">>, FALSE) }

\* sequences of pairwise different members of S, of length at most n
DistinctSeqs(S, n) ==
    {q \in UNION {[1..k -> S] : k \in 0..n} :
        \A i, j \in DOMAIN q : i # j => q[i] # q[j]}

GroupLineSeqs == DistinctSeqs(GroupLineChoices, MaxGroups)

\* f"group_{counter}"
GeneratedName(counter) ==
    <<"group_0", "group_1", "group_2", "group_3", "group_4", "group_5">>[counter + 1]

\* TextFormatParser._parse_group_line: counter is the line's 0-based index
ParseGroupLine(line, counter) ==
    IF line.bracket
    THEN Multi(GeneratedName(counter), line.tokens, line.underline)
    ELSE [Single(line.tokens[1]) EXCEPT !.underline = line.underline]

ParseGroupLines(lines) == [i \in DOMAIN lines |-> ParseGroupLine(lines[i], i - 1)]

\* the names a link of the input family may mention: the first element of
\* each group, the last element of an underlined group, and two names that
\* are in no group
LinkEnds(gs) ==
    {"y", "z"} \cup
    UNION { {Elements(gs[i])[1]} \cup
            (IF gs[i].underline THEN {Elements(gs[i])[Len(Elements(gs[i]))]} ELSE {})
            : i \in DOMAIN gs }

\* link lists of at most n links with pairwise different sources
LinkSeqs(E, n) ==
    {q \in UNION {[1..k -> E \X E] : k \in 0..n} :
        \A i, j \in DOMAIN q : i # j => q[i][1] # q[j][1]}

(***************************************************************************)
(* TextFormatParser.parse                                                  *)
(***************************************************************************)
\* the occurrences of label e as a non-separator element of some group
Occurrences(gs, e) ==
    {<<i, j>> \in (DOMAIN gs) \X (1..9) :
        j <= Len(Elements(gs[i])) /\ Elements(gs[i])[j] = e}

AllLabels(gs) == UNION {Range(Elements(gs[i])) : i \in DOMAIN gs} \ Separators

\* _validate_unique_elements: the labels listed more than once
DuplicateLabels(gs) == {e \in AllLabels(gs) : Cardinality(Occurrences(gs, e)) > 1}

\* a label that two different groups list
SharedLabels(gs) ==
    {e \in AllLabels(gs) :
        \E o1, o2 \in Occurrences(gs, e) : o1[1] # o2[1]}

CountOf(s, x) == Cardinality({i \in DOMAIN s : s[i] = x})

\* _validate_plus_elements, for one group
PlusError(g) ==
    /\ g.has_elements
    /\ "+" \in Range(g.elements)
    /\ LET plus == CountOf(g.elements, "+")
           non_plus == Len(g.elements) - plus
       IN  /\ non_plus >= 2
           /\ \/ plus # non_plus - 1
              \/ \E i \in DOMAIN g.elements :
                    \/ ((i - 1) % 2 = 0 /\ g.elements[i] = "+")
                    \/ ((i - 1) % 2 = 1 /\ g.elements[i] # "+")

\* self.links[source] = target for each link line: the last write wins,
\* the key keeps the place of its first insertion
RECURSIVE DictFromPairs(_, _)
DictFromPairs(pairs, i) ==
    IF i = 0 THEN <<>>
    ELSE LET d == DictFromPairs(pairs, i - 1)
             p == pairs[i]
         IN  IF \E k \in DOMAIN d : d[k][1] = p[1]
             THEN [k \in DOMAIN d |-> IF d[k][1] = p[1] THEN p ELSE d[k]]
             ELSE Append(d, p)

ParseLinkLines(link_lines) == DictFromPairs(link_lines, Len(link_lines))

(***************************************************************************)
(* GroupPositioner                                                         *)
(***************************************************************************)
\* calculate_group_widths([name])[0]
GroupWidth(gs, name) ==
    LET g == GroupNamed(gs, name)
    IN  IF g.has_elements /\ Len(g.elements) > 1
        THEN (Len(g.elements) - 1) * WITHIN_GROUP_SPACING
        ELSE 0

NoLayout == [levels |-> EmptyMap, positions |-> EmptyMap, node_positions |-> EmptyMap]

\* the node positions a group's elements get when the group starts at x:
\* separators keep their slot and get no node
NodesOfGroupAt(np, elems, x, y) ==
    [e \in (DOMAIN np) \cup (Range(elems) \ Separators) |->
        IF e \in Range(elems) \ Separators
        THEN [x |-> x + (MaxOf({i \in DOMAIN elems : elems[i] = e}) - 1)
                            * WITHIN_GROUP_SPACING,
              y |-> y]
        ELSE np[e]]

\* place_group_at / place_group_at_position: the layout after placing name
PlaceGroupAt(gs, lay, name, x, y) ==
    LET elems == Elements(GroupNamed(gs, name))
    IN  [levels |-> Put(lay.levels, name, y),
         positions |-> Put(lay.positions, name, [x |-> x, elements |-> elems]),
         node_positions |-> NodesOfGroupAt(lay.node_positions, elems, x, y)]

\* place the groups of ordering left to right from x, each followed by
\* BETWEEN_GROUP_SPACING (RowPlacer.place_groups_on_row with center=False,
\* and the trial placement of the permutation search)
RECURSIVE PlaceSequentially(_, _, _, _, _, _)
PlaceSequentially(gs, lay, ordering, i, x, y) ==
    IF i > Len(ordering) THEN lay
    ELSE PlaceSequentially(gs, PlaceGroupAt(gs, lay, ordering[i], x, y), ordering,
                           i + 1,
                           x + GroupWidth(gs, ordering[i]) + BETWEEN_GROUP_SPACING, y)

(***************************************************************************)
(* Arrows and crossings                                                    *)
(***************************************************************************)
\* LayoutEngine._collect_arrows: one arrow per link with both ends positioned
RECURSIVE CollectArrowsFrom(_, _, _)
CollectArrowsFrom(np, lk, i) ==
    IF i > Len(lk) THEN <<>>
    ELSE LET s == lk[i][1]
             t == lk[i][2]
         IN  (IF s \in DOMAIN np /\ t \in DOMAIN np
              THEN <<[source |-> s, sx |-> np[s].x, sy |-> np[s].y,
                      target |-> t, tx |-> np[t].x, ty |-> np[t].y]>>
              ELSE <<>>) \o CollectArrowsFrom(np, lk, i + 1)

CollectArrows(np, lk) == CollectArrowsFrom(np, lk, 1)

\* GeometricHelper.segments_intersect
Ccw(ax, ay, bx, by, cx, cy) == (cy - ay) * (bx - ax) > (by - ay) * (cx - ax)

SegmentsIntersect(x1, y1, x2, y2, x3, y3, x4, y4) ==
    /\ Ccw(x1, y1, x3, y3, x4, y4) # Ccw(x2, y2, x3, y3, x4, y4)
    /\ Ccw(x1, y1, x2, y2, x3, y3) # Ccw(x1, y1, x2, y2, x4, y4)

\* ConflictDetector.check_arrow_crossings: the crossing pairs, by index
ArrowsCross(a, b) ==
    /\ ~(a.source = b.source \/ a.source = b.target
         \/ a.target = b.source \/ a.target = b.target)
    /\ SegmentsIntersect(a.sx, a.sy, a.tx, a.ty, b.sx, b.sy, b.tx, b.ty)
    /\ (a.sx - a.tx) * (b.sy - b.ty) - (a.sy - a.ty) * (b.sx - b.tx) # 0

CheckArrowCrossings(arrows) ==
    {<<i, j>> \in (DOMAIN arrows) \X (DOMAIN arrows) :
        i < j /\ ArrowsCross(arrows[i], arrows[j])}

(***************************************************************************)
(* The layering of compute_layout_bottom_up_arrow_aware                    *)
(***************************************************************************)
\* the group of an element, or the element itself when it is in no group
NodeOf(e2g, e) == IF e \in DOMAIN e2g THEN e2g[e] ELSE e

\* group_layer before the loop: every group, and every standalone source, at 0
InitialGroupLayer(gs, e2g, lk) ==
    [n \in GroupNames(gs) \cup {lk[i][1] : i \in {j \in DOMAIN lk : lk[j][1] \notin DOMAIN e2g}}
        |-> 0]

\* A loop body that raises the target's layer without asking for another
\* pass, so that one pass in dict order is all there is (the variant C12 is
\* checked against)
RelaxLinkOnce(st, e2g, s, t) ==
    LET src_layer == st.layer[NodeOf(e2g, s)]
        tgt == NodeOf(e2g, t)
        gl == IF tgt \in DOMAIN st.layer THEN st.layer ELSE Put(st.layer, tgt, 0)
    IN  IF gl[tgt] <= src_layer
        THEN [layer |-> Put(gl, tgt, src_layer + 1), changed |-> st.changed]
        ELSE [layer |-> gl, changed |-> st.changed]

\* A loop body that lets a target stay on the layer of its source (the
\* variant C28 is checked against)
RelaxLinkWeak(st, e2g, s, t) ==
    LET src_layer == st.layer[NodeOf(e2g, s)]
        tgt == NodeOf(e2g, t)
        gl == IF tgt \in DOMAIN st.layer THEN st.layer ELSE Put(st.layer, tgt, 0)
    IN  IF gl[tgt] < src_layer
        THEN [layer |-> Put(gl, tgt, src_layer + 1), changed |-> TRUE]
        ELSE [layer |-> gl, changed |-> st.changed]

\* the body of the loop for one link
RelaxLink(st, e2g, s, t) ==
    LET src_layer == st.layer[NodeOf(e2g, s)]
        tgt == NodeOf(e2g, t)
        gl == IF tgt \in DOMAIN st.layer THEN st.layer ELSE Put(st.layer, tgt, 0)
    IN  IF gl[tgt] <= src_layer
        THEN [layer |-> Put(gl, tgt, src_layer + 1), changed |-> TRUE]
        ELSE [layer |-> gl, changed |-> st.changed]

\* one pass of the while loop: the links in dict order
RECURSIVE RelaxFrom(_, _, _, _)
RelaxFrom(st, e2g, lk, i) ==
    IF i > Len(lk) THEN st
    ELSE RelaxFrom(RelaxLink(st, e2g, lk[i][1], lk[i][2]), e2g, lk, i + 1)

RelaxOnePass(gl, e2g, lk) == RelaxFrom([layer |-> gl, changed |-> FALSE], e2g, lk, 1)

\* the nodes of the layering graph: the groups and the standalone link ends
LayerNodes(gs, e2g, lk) ==
    GroupNames(gs) \cup {NodeOf(e2g, lk[i][1]) : i \in DOMAIN lk}
                   \cup {NodeOf(e2g, lk[i][2]) : i \in DOMAIN lk}

\* the groups of layer k listed last-declared first
LayersReversed(gs, gl, k) ==
    LET s == SelectSeq(group_input_order(gs), LAMBDA g : gl[g] = k)
    IN  [i \in DOMAIN s |-> s[Len(s) + 1 - i]]

\* layers[k + 1]: the declared groups of layer k, in input order
LayerList(gs, gl, k) == SelectSeq(group_input_order(gs), LAMBDA g : gl[g] = k)

BuildLayerLists(gs, gl) ==
    [j \in 1..(MaxOf({gl[n] : n \in DOMAIN gl}) + 1) |-> LayerList(gs, gl, j - 1)]

(***************************************************************************)
(* The permutation search over one layer                                   *)
(***************************************************************************)
RemoveAt(s, i) == [k \in 1..(Len(s) - 1) |-> IF k < i THEN s[k] ELSE s[k + 1]]

\* itertools.permutations(s): by position, the first being s itself
RECURSIVE Perms(_)
RECURSIVE PermsFrom(_, _)
Perms(s) == IF Len(s) = 0 THEN << <<>> >> ELSE PermsFrom(s, 1)

PermsFrom(s, i) ==
    IF i > Len(s) THEN <<>>
    ELSE LET rest == Perms(RemoveAt(s, i))
         IN  [k \in DOMAIN rest |-> <<s[i]>> \o rest[k]] \o PermsFrom(s, i + 1)

\* the orderings the search tries: all of them for a small layer
CandidateOrderings(layer) ==
    IF Len(layer) <= PermSearchMax THEN Perms(layer) ELSE <<layer>>

\* the crossings counted for one trial ordering placed from x = 0.0
TrialCrossings(gs, lay, lk, ordering, y) ==
    Cardinality(CheckArrowCrossings(
        CollectArrows(PlaceSequentially(gs, lay, ordering, 1, 0, y).node_positions, lk)))

\* whether a trial with c crossings replaces the best one so far
ImprovesOrEqual(c, best) == c <= best

Improves(c, best) == c < best

(***************************************************************************)
(* LayoutEngine._split_groups_into_rows                                    *)
(***************************************************************************)
\* whether the group of width w must open a new row
OverflowsIgnoringGap(cur, x, w) == cur # <<>> /\ x + w > MAX_X_POSITION

Overflows(cur, x, w) ==
    cur # <<>> /\ x + BETWEEN_GROUP_SPACING + w > MAX_X_POSITION

RECURSIVE SplitFrom(_, _, _, _, _, _)
SplitFrom(gs, ordered, i, done, cur, x) ==
    IF i > Len(ordered)
    THEN IF cur # <<>> THEN Append(done, cur) ELSE done
    ELSE LET w == GroupWidth(gs, ordered[i])
         IN  IF Overflows(cur, x, w)
             THEN SplitFrom(gs, ordered, i + 1, Append(done, cur), <<ordered[i]>>, w)
             ELSE SplitFrom(gs, ordered, i + 1, done, Append(cur, ordered[i]),
                            x + (IF cur # <<>> THEN BETWEEN_GROUP_SPACING ELSE 0) + w)

SplitGroupsIntoRows(gs, ordered) == SplitFrom(gs, ordered, 1, <<>>, <<>>, 0)

(***************************************************************************)
(* The run: parse_text_format, DiagramGenerator.__init__ and               *)
(* compute_layout_bottom_up_arrow_aware                                    *)
(***************************************************************************)
\* nothing is laid out yet
NoLayoutYet ==
    /\ levels = EmptyMap
    /\ positions = EmptyMap
    /\ node_positions = EmptyMap
    /\ placed = <<>>

\* no layer is being ordered yet
NoSearchYet ==
    /\ err = NoError
    /\ perm_idx = 0
    /\ min_crossings = Infinity
    /\ rows = <<>>
    /\ iteration = 0
    /\ detections = <<>>

\* the layering has not started
NoLayersYet ==
    /\ element_to_group = EmptyMap
    /\ group_layer = EmptyMap
    /\ changed = TRUE
    /\ layers = <<>>
    /\ layer_idx = 0

\* a text-format input, or an already normalized spec
Init ==
    /\ NoLayersYet /\ NoSearchYet /\ NoLayoutYet
    /\ best_order = <<>>
    /\ \E lines \in GroupLineSeqs :
       \E lk \in LinkSeqs(LinkEnds(ParseGroupLines(lines)), MaxLinks) :
       \E from_text \in BOOLEAN :
          IF from_text
          THEN /\ pc = "parse"
               /\ text = [group_lines |-> lines, link_lines |-> lk, present |-> TRUE]
               /\ groups = <<>>
               /\ links = <<>>
          ELSE /\ pc = "construct"
               /\ text = NoText
               /\ groups = ParseGroupLines(lines)
               /\ links = ParseLinkLines(lk)

\* the groups that list label e, by name
GroupsListing(gs, e) == {gs[o[1]].name : o \in Occurrences(gs, e)}

\* TextFormatParser.parse
ParseText ==
    /\ pc = "parse"
    /\ LET gs == ParseGroupLines(text.group_lines)
           dup == DuplicateLabels(gs)
       IN  IF dup # {}
           THEN /\ pc' = "raised"
                /\ err' = Raised("ValueError", dup,
                                 UNION {GroupsListing(gs, e) : e \in dup}, {})
                /\ UNCHANGED <<groups, links>>
           ELSE IF \E i \in DOMAIN gs : PlusError(gs[i])
           THEN /\ pc' = "raised"
                /\ err' = Raised("ValueError", {"+"},
                                 {gs[i].name : i \in {j \in DOMAIN gs : PlusError(gs[j])}}, {})
                /\ UNCHANGED <<groups, links>>
           ELSE /\ pc' = "construct"
                /\ groups' = gs
                /\ links' = ParseLinkLines(text.link_lines)
                /\ err' = err
    /\ text' = NoText
    /\ UNCHANGED <<element_to_group, group_layer, changed, layers, layer_idx,
                   perm_idx, best_order, min_crossings, rows, levels, positions,
                   node_positions, placed, iteration, detections>>

\* DiagramGenerator.__init__, then generate_latex up to the layering loop
Construct ==
    /\ pc = "construct"
    /\ element_to_group' = BuildElementToGroup(groups)
    /\ group_layer' = InitialGroupLayer(groups, BuildElementToGroup(groups), links)
    /\ changed' = TRUE
    /\ pc' = "relax"
    /\ UNCHANGED <<err, text, groups, links, layers, layer_idx, perm_idx, best_order,
                   min_crossings, rows, levels, positions, node_positions, placed,
                   iteration, detections>>

\* A layer index as large as the number of nodes is reached only around a
\* cycle of links, and then every later pass raises a layer again: the loop
\* has no exit.  The run is followed no further ("diverges").
NoExit(gl, gs, e2g, lk) ==
    \E n \in DOMAIN gl : gl[n] >= Cardinality(LayerNodes(gs, e2g, lk))

\* one iteration of `while changed`
RelaxPass ==
    /\ pc = "relax"
    /\ changed
    /\ LET st == RelaxOnePass(group_layer, element_to_group, links)
       IN  /\ group_layer' = st.layer
           /\ changed' = st.changed
           /\ pc' = IF NoExit(st.layer, groups, element_to_group, links)
                    THEN "diverges" ELSE "relax"
    /\ UNCHANGED <<err, text, groups, links, element_to_group, layers, layer_idx,
                   perm_idx, best_order, min_crossings, rows, levels, positions,
                   node_positions, placed, iteration, detections>>

\* the loop exit and the construction of the layer lists
BuildLayers ==
    /\ pc = "relax"
    /\ ~changed
    /\ IF DOMAIN group_layer = {}
       THEN /\ pc' = "raised"
            /\ err' = Raised("ValueError", {}, {}, {})
            /\ layers' = layers
       ELSE /\ pc' = "order"
            /\ err' = err
            /\ layers' = BuildLayerLists(groups, group_layer)
    /\ layer_idx' = 0
    /\ perm_idx' = 0
    /\ best_order' = <<>>
    /\ min_crossings' = Infinity
    /\ UNCHANGED <<text, groups, links, element_to_group, group_layer, changed, rows,
                   levels, positions, node_positions, placed, iteration, detections>>

\* the layout dictionaries as one record
Layout == [levels |-> levels, positions |-> positions, node_positions |-> node_positions]

y_level == layer_idx * y_spacing

\* one trial of `for ordering in perms`
TryOrdering ==
    /\ pc = "order"
    /\ LET perms == CandidateOrderings(layers[layer_idx + 1])
           ordering == perms[perm_idx + 1]
           c == TrialCrossings(groups, Layout, links, ordering, y_level)
           better == Improves(c, min_crossings)
       IN  /\ best_order' = IF better THEN ordering ELSE best_order
           /\ min_crossings' = IF better THEN c ELSE min_crossings
           /\ perm_idx' = perm_idx + 1
           /\ pc' = IF (better /\ c = 0) \/ perm_idx + 1 = Len(perms)
                    THEN "split" ELSE "order"
    /\ UNCHANGED <<err, text, groups, links, element_to_group, group_layer, changed,
                   layers, layer_idx, rows, levels, positions, node_positions, placed,
                   iteration, detections>>

\* rows = self._split_groups_into_rows(ordered_groups)
SplitRows ==
    /\ pc = "split"
    /\ rows' = SplitGroupsIntoRows(groups, best_order)
    /\ pc' = "place"
    /\ UNCHANGED <<err, text, groups, links, element_to_group, group_layer, changed,
                   layers, layer_idx, perm_idx, best_order, min_crossings, levels,
                   positions, node_positions, placed, iteration, detections>>

\* `for row in rows: self.row_placer.place_groups_on_row(..., force_sequential=True)`:
\* RowPlacer.place_groups_on_row has no parameter force_sequential, so the
\* call for the first row raises TypeError before anything is placed
PlaceRows ==
    /\ pc = "place"
    /\ IF rows # <<>>
       THEN /\ pc' = "raised"
            /\ err' = Raised("TypeError", {}, {}, {})
            /\ UNCHANGED <<layer_idx, perm_idx, best_order, min_crossings>>
       ELSE /\ err' = err
            /\ pc' = IF layer_idx + 1 < Len(layers) THEN "order" ELSE "check"
            /\ layer_idx' = IF layer_idx + 1 < Len(layers) THEN layer_idx + 1 ELSE layer_idx
            /\ perm_idx' = 0
            /\ best_order' = <<>>
            /\ min_crossings' = Infinity
    /\ UNCHANGED <<text, groups, links, element_to_group, group_layer, changed, layers,
                   rows, levels, positions, node_positions, placed, iteration, detections>>

\* node_y: the y of every positioned element of a positioned group
NodeY(pos, np) ==
    [e \in {e \in DOMAIN np : \E g \in DOMAIN pos : e \in Range(pos[g].elements)}
        |-> np[e].y]

\* the links whose source is not strictly below (in y) their target
NonDownwardArrows(pos, np, lk) ==
    LET node_y == NodeY(pos, np)
    IN  {lk[i] : i \in {j \in DOMAIN lk :
            /\ lk[j][1] \in DOMAIN node_y
            /\ lk[j][2] \in DOMAIN node_y
            /\ node_y[lk[j][1]] >= node_y[lk[j][2]]}}

\* the check for non-downward arrows, and the return of the layout
CheckNonDownward ==
    /\ pc = "check"
    /\ LET bad == NonDownwardArrows(positions, node_positions, links)
       IN  IF bad # {}
           THEN /\ pc' = "raised"
                /\ err' = Raised("RuntimeError", {}, {}, bad)
           ELSE /\ pc' = "nodes"
                /\ err' = err
    /\ UNCHANGED <<text, groups, links, element_to_group, group_layer, changed, layers,
                   layer_idx, perm_idx, best_order, min_crossings, rows, levels,
                   positions, node_positions, placed, iteration, detections>>

(***************************************************************************)
(* DiagramGenerator.generate_latex after the layout has been returned      *)
(***************************************************************************)
Abs(n) == IF n < 0 THEN -n ELSE n

\* node_positions rebuilt from positions and levels, in dict order
RECURSIVE RebuildNodesFrom(_, _, _, _, _)
RebuildNodesFrom(np, order, pos, lev, i) ==
    IF i > Len(order) THEN np
    ELSE RebuildNodesFrom(
            NodesOfGroupAt(np, pos[order[i]].elements, pos[order[i]].x, lev[order[i]]),
            order, pos, lev, i + 1)

RebuildNodes(order, pos, lev) == RebuildNodesFrom(EmptyMap, order, pos, lev, 1)

\* the keys of node_positions in insertion order
RECURSIVE AppendNew(_, _, _)
AppendNew(keys, elems, i) ==
    IF i > Len(elems) THEN keys
    ELSE IF elems[i] \in Separators \/ elems[i] \in Range(keys)
         THEN AppendNew(keys, elems, i + 1)
         ELSE AppendNew(Append(keys, elems[i]), elems, i + 1)

RECURSIVE NodeOrderFrom(_, _, _, _)
NodeOrderFrom(keys, order, pos, i) ==
    IF i > Len(order) THEN keys
    ELSE NodeOrderFrom(AppendNew(keys, pos[order[i]].elements, 1), order, pos, i + 1)

NodeOrder(order, pos) == NodeOrderFrom(<<>>, order, pos, 1)

\* ConflictDetector.check_text_overlaps: the overlapping pairs, by index
TextOverlap(a, b) == a.y = b.y /\ 10 * Abs(a.x - b.x) < TEXT_WIDTH

CheckTextOverlaps(np, keys) ==
    {<<i, j>> \in (DOMAIN keys) \X (DOMAIN keys) :
        i < j /\ TextOverlap(np[keys[i]], np[keys[j]])}

\* GeometricHelper.line_intersects_box
LineIntersectsBox(x1, y1, x2, y2, box_min_x, box_min_y, box_max_x, box_max_y) ==
    \/ (box_min_x <= x1 /\ x1 <= box_max_x /\ box_min_y <= y1 /\ y1 <= box_max_y)
    \/ (box_min_x <= x2 /\ x2 <= box_max_x /\ box_min_y <= y2 /\ y2 <= box_max_y)
    \/ SegmentsIntersect(x1, y1, x2, y2, box_min_x, box_min_y, box_max_x, box_min_y)
    \/ SegmentsIntersect(x1, y1, x2, y2, box_max_x, box_min_y, box_max_x, box_max_y)
    \/ SegmentsIntersect(x1, y1, x2, y2, box_max_x, box_max_y, box_min_x, box_max_y)
    \/ SegmentsIntersect(x1, y1, x2, y2, box_min_x, box_max_y, box_min_x, box_min_y)

\* whether arrow a passes through the text box of a node at n: the box is
\* TEXT_WIDTH by TEXT_HEIGHT around the node (all lengths in hundredths)
ArrowThroughBox(a, n) ==
    LineIntersectsBox(10 * a.sx, 10 * a.sy, 10 * a.tx, 10 * a.ty,
                      10 * n.x - TEXT_WIDTH \div 2, 10 * n.y - TEXT_HEIGHT \div 2,
                      10 * n.x + TEXT_WIDTH \div 2, 10 * n.y + TEXT_HEIGHT \div 2)

\* ConflictDetector.check_arrow_through_text: <<arrow index, node name>>
CheckArrowThroughText(arrows, np) ==
    {c \in (DOMAIN arrows) \X (DOMAIN np) :
        /\ c[2] # arrows[c[1]].source
        /\ c[2] # arrows[c[1]].target
        /\ ArrowThroughBox(arrows[c[1]], np[c[2]])}

\* group_center_nodes (generate_latex, lines 139-148): the positioned
\* underlined groups, each of which has a centre node
GroupCenterNodes(gs, pos, lev) ==
    {g \in DOMAIN lev : GroupNamed(gs, g).underline /\ Len(pos[g].elements) > 0}

\* the anchor of an arrow that leaves an underlined group as a whole: the
\* slot at index len(elements) // 2, 0.3 under the group's level
CenterAnchor(pos, lev, g) ==
    [x |-> pos[g].x + (Len(pos[g].elements) \div 2) * WITHIN_GROUP_SPACING,
     y |-> lev[g] - SouthAnchorOffset]

\* whether detect_all_conflicts anchors the arrows of source at the centre
\* of its group: only when every optional argument is given and non-empty
AnchoredAtCenter(source, e2g, gs, centers, pos, lev) ==
    /\ DOMAIN e2g # {} /\ gs # <<>> /\ centers # {}
    /\ DOMAIN pos # {} /\ DOMAIN lev # {}
    /\ NodeOf(e2g, source) \in GroupNames(gs)
    /\ GroupNamed(gs, NodeOf(e2g, source)).underline
    /\ source = NodeOf(e2g, source)
    /\ source \in centers

\* adjusted_positions of detect_all_conflicts
AdjustedPositions(np, lk, e2g, gs, centers, pos, lev) ==
    LET anchored == {lk[i][1] : i \in {j \in DOMAIN lk :
                        AnchoredAtCenter(lk[j][1], e2g, gs, centers, pos, lev)}}
    IN  [e \in (DOMAIN np) \cup anchored |->
            IF e \in anchored THEN CenterAnchor(pos, lev, e) ELSE np[e]]

\* ConflictDetector.detect_all_conflicts; keys is the dict order of
\* node_positions
DetectAllConflicts(np, keys, lk, e2g, gs, centers, pos, lev) ==
    LET arrows == CollectArrows(AdjustedPositions(np, lk, e2g, gs, centers, pos, lev), lk)
    IN  [arrows |-> arrows,
         text_overlaps |-> CheckTextOverlaps(np, keys),
         arrow_crossings |-> CheckArrowCrossings(arrows),
         arrow_through_text |-> CheckArrowThroughText(arrows, np)]

\* total_conflicts of _print_conflict_status
TotalConflicts(conf) ==
    Cardinality(conf.text_overlaps) + Cardinality(conf.arrow_crossings)
        + Cardinality(conf.arrow_through_text)

\* one entry of the log of detection passes: who ran it, what it found and
\* the group the pass then shifted ("" if none)
Detection(by, conf, shifted) ==
    [by |-> by, arrows |-> conf.arrows, text_overlaps |-> conf.text_overlaps,
     arrow_crossings |-> conf.arrow_crossings,
     arrow_through_text |-> conf.arrow_through_text, shifted |-> shifted]

\* ConflictResolver._find_group_for_element: the first group listing it
GroupsFor(gs, e) ==
    {i \in DOMAIN group_input_order(gs) :
        LET g == GroupNamed(gs, group_input_order(gs)[i])
        IN  IF g.has_elements THEN e \in Range(g.elements) ELSE g.name = e}

\* the group _resolve_text_overlaps shifts: that of the first overlap whose
\* first element is in a positioned group; "" if there is none
GroupToShift(gs, pos, np, keys) ==
    LET found(e) == group_input_order(gs)[MinOf(GroupsFor(gs, e))]
        cand == {o \in CheckTextOverlaps(np, keys) :
                    GroupsFor(gs, keys[o[1]]) # {} /\ found(keys[o[1]]) \in DOMAIN pos}
        first == CHOOSE o \in cand :
                    \A q \in cand : o[1] < q[1] \/ (o[1] = q[1] /\ o[2] <= q[2])
    IN  IF cand = {} THEN "" ELSE found(keys[first[1]])

\* the x an element of a group gets when the group starts at start_x
KeepSpacing(elems, e, start_x) ==
    start_x + (MaxOf({i \in DOMAIN elems : elems[i] = e}) - 1) * WITHIN_GROUP_SPACING

\* A shift that also moves the nodes of the group down by the same amount
\* (the variant C30 is checked against)
ShiftGroupDiagonally(lay, name, shift) ==
    LET elems == lay.positions[name].elements
        new_start == lay.positions[name].x + shift
    IN  [levels |-> lay.levels,
         positions |-> Put(lay.positions, name, [x |-> new_start, elements |-> elems]),
         node_positions |->
            [e \in DOMAIN lay.node_positions |->
                IF e \in Range(elems)
                THEN [x |-> KeepSpacing(elems, e, new_start),
                      y |-> lay.node_positions[e].y + shift]
                ELSE lay.node_positions[e]]]

\* ConflictResolver._shift_group_horizontally
ShiftGroupHorizontally(lay, name, shift) ==
    LET elems == lay.positions[name].elements
        new_start == lay.positions[name].x + shift
    IN  [levels |-> lay.levels,
         positions |-> Put(lay.positions, name, [x |-> new_start, elements |-> elems]),
         node_positions |->
            [e \in DOMAIN lay.node_positions |->
                IF e \in Range(elems)
                THEN [x |-> KeepSpacing(elems, e, new_start),
                      y |-> lay.node_positions[e].y]
                ELSE lay.node_positions[e]]]

\* An override that pins the x of the group and leaves its level alone
\* (the variant C22 is checked against)
ApplyOverrideXOnly(lay, g) ==
    IF g.override # NoOverride /\ g.name \in DOMAIN lay.positions
                               /\ g.name \in DOMAIN lay.levels
    THEN LET elems == lay.positions[g.name].elements
         IN  [levels |-> lay.levels,
              positions |-> Put(lay.positions, g.name,
                                [x |-> g.override[1], elements |-> elems]),
              node_positions |-> lay.node_positions]
    ELSE lay

\* the override loop of generate_latex, for one group
ApplyOverride(lay, g) ==
    IF g.override # NoOverride /\ g.name \in DOMAIN lay.positions
                               /\ g.name \in DOMAIN lay.levels
    THEN LET elems == lay.positions[g.name].elements
         IN  [levels |-> Put(lay.levels, g.name, g.override[2]),
              positions |-> Put(lay.positions, g.name,
                                [x |-> g.override[1], elements |-> elems]),
              node_positions |->
                [e \in DOMAIN lay.node_positions |->
                    IF e \in Range(elems)
                    THEN [x |-> KeepSpacing(elems, e, g.override[1]),
                          y |-> g.override[2]]
                    ELSE lay.node_positions[e]]]
    ELSE lay

RECURSIVE ApplyOverridesFrom(_, _, _)
ApplyOverridesFrom(lay, gs, i) ==
    IF i > Len(gs) THEN lay
    ELSE ApplyOverridesFrom(ApplyOverride(lay, gs[i]), gs, i + 1)

\* lines 127-148: node_positions is rebuilt for conflict resolution
BuildNodes ==
    /\ pc = "nodes"
    /\ node_positions' = RebuildNodes(placed, positions, levels)
    /\ iteration' = 0
    /\ pc' = "resolve"
    /\ UNCHANGED <<err, text, groups, links, element_to_group, group_layer, changed,
                   layers, layer_idx, perm_idx, best_order, min_crossings, rows,
                   levels, positions, placed, detections>>

\* A resolver that reports success on every pass, whether or not a group
\* was moved (the variant C15 is checked against)
AttemptAlwaysResolved(lay, gs, keys) ==
    LET g == GroupToShift(gs, lay.positions, lay.node_positions, keys)
    IN  [resolved |-> TRUE,
         shifted |-> g,
         layout |-> IF g # "" THEN ShiftGroupHorizontally(lay, g, OverlapShift) ELSE lay,
         group_name_to_group |-> gs]

\* A resolver that also rewrites the record of the group it moves, as the
\* unused _resolve_arrow_through_text would (the variant C19 is checked
\* against)
AttemptRewritingGroup(lay, gs, keys) ==
    LET g == GroupToShift(gs, lay.positions, lay.node_positions, keys)
    IN  [resolved |-> g # "",
         shifted |-> g,
         layout |-> IF g # "" THEN ShiftGroupHorizontally(lay, g, OverlapShift) ELSE lay,
         group_name_to_group |->
             [i \in DOMAIN gs |->
                 IF gs[i].name = g THEN [gs[i] EXCEPT !.underline = ~@] ELSE gs[i]]]

\* ConflictResolver._attempt_conflict_resolution: only text overlaps are
\* resolved (_resolve_text_overlaps); the group dictionary is handed on
\* untouched
AttemptConflictResolution(lay, gs, keys) ==
    LET g == GroupToShift(gs, lay.positions, lay.node_positions, keys)
    IN  [resolved |-> g # "",
         shifted |-> g,
         layout |-> IF g # "" THEN ShiftGroupHorizontally(lay, g, OverlapShift) ELSE lay,
         group_name_to_group |-> gs]

\* One pass of `for iteration in range(max_iterations)` of
\* resolve_conflicts_iteratively: detect, stop on zero conflicts, try to
\* resolve, stop if nothing was resolved; the loop also ends with its last
\* pass.
ResolveIteration ==
    /\ pc = "resolve"
    /\ iteration < max_iterations
    /\ LET keys == NodeOrder(placed, positions)
           conf == DetectAllConflicts(node_positions, keys, links, element_to_group,
                                      groups, GroupCenterNodes(groups, positions, levels),
                                      positions, levels)
           res == AttemptConflictResolution(Layout, groups, keys)
           resolved_any == TotalConflicts(conf) # 0 /\ res.resolved
       IN  /\ detections' = Append(detections,
                                   Detection("resolve", conf,
                                             IF resolved_any THEN res.shifted ELSE ""))
           /\ positions' = IF resolved_any THEN res.layout.positions ELSE positions
           /\ node_positions' = IF resolved_any THEN res.layout.node_positions
                                ELSE node_positions
           /\ groups' = IF resolved_any THEN res.group_name_to_group ELSE groups
           /\ iteration' = iteration + 1
           /\ pc' = IF resolved_any /\ iteration + 1 < max_iterations
                    THEN "resolve" ELSE "overrides"
    /\ UNCHANGED <<err, text, links, element_to_group, group_layer, changed,
                   layers, layer_idx, perm_idx, best_order, min_crossings, rows,
                   levels, placed>>

\* lines 155-167: the override_position of each group is applied
ApplyOverrides ==
    /\ pc = "overrides"
    /\ LET lay == ApplyOverridesFrom(Layout, groups, 1)
       IN  /\ levels' = lay.levels
           /\ positions' = lay.positions
           /\ node_positions' = lay.node_positions
    /\ pc' = "generate"
    /\ UNCHANGED <<err, text, groups, links, element_to_group, group_layer, changed,
                   layers, layer_idx, perm_idx, best_order, min_crossings, rows,
                   placed, iteration, detections>>

\* the link sources LaTeXGenerator cannot look up: group_name_to_group has
\* no entry for a source that is in no group, and positions has none for an
\* underlined single group that was not placed
UnknownSources(gs, e2g, lk, pos) ==
    {lk[i][1] : i \in {j \in DOMAIN lk :
        LET grp == NodeOf(e2g, lk[j][1])
        IN  \/ grp \notin GroupNames(gs)
            \/ /\ GroupNamed(gs, grp).underline
               /\ lk[j][1] = grp
               /\ grp \notin DOMAIN pos}}

\* lines 168-175: the final validation is a detection pass without the
\* optional arguments, which only prints its findings; then
\* LaTeXGenerator.generate builds the document
GenerateLatex ==
    /\ pc = "generate"
    /\ detections' = Append(detections,
            Detection("final",
                      DetectAllConflicts(node_positions, NodeOrder(placed, positions),
                                         links, EmptyMap, <<>>, {}, EmptyMap, EmptyMap),
                      ""))
    /\ LET unknown == UnknownSources(groups, element_to_group, links, positions)
       IN  IF unknown # {}
           THEN /\ pc' = "raised"
                /\ err' = Raised("KeyError", unknown, {}, {})
           ELSE /\ pc' = "done"
                /\ err' = err
    /\ UNCHANGED <<text, groups, links, element_to_group, group_layer, changed, layers,
                   layer_idx, perm_idx, best_order, min_crossings, rows, levels,
                   positions, node_positions, placed, iteration>>

Next ==
    \/ ParseText
    \/ Construct
    \/ RelaxPass
    \/ BuildLayers
    \/ TryOrdering
    \/ SplitRows
    \/ PlaceRows
    \/ CheckNonDownward
    \/ BuildNodes
    \/ ResolveIteration
    \/ ApplyOverrides
    \/ GenerateLatex

Spec == Init /\ [][Next]_vars

(***************************************************************************)
(* _split_groups_into_rows on its own: every list of groups of the sizes   *)
(* below.  The split reads only the number of elements of each group.      *)
(***************************************************************************)
MaxRowGroups == 3

ElementPool ==
    <<"e1", "e2", "e3", "e4", "e5", "e6", "e7", "e8", "e9", "e10", "e11", "e12",
      "e13", "e14", "e15", "e16", "e17", "e18", "e19">>

RowSizes == {1, 2, 8, 9, 17, 18}

InitRows ==
    /\ NoLayersYet /\ NoSearchYet /\ NoLayoutYet
    /\ text = NoText
    /\ links = <<>>
    /\ pc = "split"
    /\ \E sizes \in UNION {[1..k -> RowSizes] : k \in 0..MaxRowGroups} :
          /\ groups = [i \in DOMAIN sizes |->
                          Multi(GeneratedName(i - 1), SubSeq(ElementPool, 1, sizes[i]), FALSE)]
          /\ best_order = [i \in DOMAIN sizes |-> GeneratedName(i - 1)]

NextRows == SplitRows

SpecRows == InitRows /\ [][NextRows]_vars

(***************************************************************************)
(* The permutation search on its own: the groups of layer 1 are ordered    *)
(* above a placed layer 0 that holds the group [m n o], every element of   *)
(* which may have a link into layer 1.                                     *)
(***************************************************************************)
MaxPermGroups == 3

LowerLine == GroupLine(TRUE, <<"m", "n", "o">>, FALSE)

UpperLineChoices ==
    { GroupLine(FALSE, <<"a">>, FALSE),
      GroupLine(FALSE, <<"b">>, FALSE),
      GroupLine(FALSE, <<"c">>, FALSE),
      GroupLine(TRUE, <<"d", "e">>, FALSE) }

\* the links of the lower elements: each has at most one target
LinksInto(targets) ==
    { SelectSeq(<< <<"m", t[1]>>, <<"n", t[2]>>, <<"o", t[3]>> >>,
                LAMBDA l : l[2] # "")
      : t \in [1..3 -> targets \cup {""}] }

InitPerm ==
    /\ NoSearchYet
    /\ text = NoText
    /\ pc = "order"
    /\ best_order = <<>>
    /\ \E upper \in DistinctSeqs(UpperLineChoices, MaxPermGroups) :
          LET gs == ParseGroupLines(<<LowerLine>> \o upper)
              lay == PlaceSequentially(gs, NoLayout, <<gs[1].name>>, 1, 0, 0)
          IN  /\ groups = gs
              /\ \E lk \in LinksInto(UNION {Range(Elements(gs[i])) : i \in 2..Len(gs)}) :
                    links = lk
              /\ element_to_group = BuildElementToGroup(gs)
              /\ group_layer = [n \in GroupNames(gs) |-> IF n = gs[1].name THEN 0 ELSE 1]
              /\ changed = FALSE
              /\ layers = << <<gs[1].name>>, [i \in 1..(Len(gs) - 1) |-> gs[i + 1].name] >>
              /\ layer_idx = 1
              /\ levels = lay.levels
              /\ positions = lay.positions
              /\ node_positions = lay.node_positions
              /\ placed = <<gs[1].name>>

NextPerm == TryOrdering

SpecPerm == InitPerm /\ [][NextPerm]_vars

(***************************************************************************)
(* compute_layout_bottom_up_arrow_aware from either start: the whole run   *)
(* of a spec, or the ordering of layer 1 above a placed layer 0 (which the *)
(* whole run does not reach, because the placement of layer 0 raises).     *)
(***************************************************************************)
InitLayout == Init \/ InitPerm

SpecLayout == InitLayout /\ [][Next]_vars

(***************************************************************************)
(* Placement, conflict resolution and overrides on their own: the groups   *)
(* of a spec are placed through GroupPositioner.place_group_at_position,   *)
(* then the run goes on as after the row placement of the layout           *)
(* (the check for non-downward arrows, and generate_latex from line 125).  *)
(***************************************************************************)
MaxFinalGroups == 2

FinalLineChoices ==
    { GroupLine(FALSE, <<"a">>, FALSE),
      GroupLine(FALSE, <<"b">>, FALSE),
      GroupLine(TRUE, <<"p", "+", "q">>, TRUE),
      GroupLine(TRUE, <<"a", "d">>, FALSE) }

\* override_position: none, or at (0.5, 0) / at (0.5, 2)
OverrideChoices == {NoOverride, <<5, 0>>, <<5, 20>>}

\* where a group may be placed
PlaceXs == {0, 3}

PlaceYs == {0, 20}

InitFinal ==
    /\ NoSearchYet /\ NoLayoutYet
    /\ text = NoText
    /\ pc = "placing"
    /\ best_order = <<>>
    /\ changed = FALSE
    /\ layers = <<>>
    /\ layer_idx = 0
    /\ group_layer = EmptyMap
    /\ \E lines \in DistinctSeqs(FinalLineChoices, MaxFinalGroups) :
       \E ov \in [DOMAIN lines -> OverrideChoices] :
          LET gs == [i \in DOMAIN lines |->
                        [ParseGroupLine(lines[i], i - 1) EXCEPT !.override = ov[i]]]
          IN  /\ lines # <<>>
              /\ groups = gs
              /\ element_to_group = BuildElementToGroup(gs)
              /\ \E lk \in LinkSeqs(LinkEnds(gs) \ {"y", "z"}, MaxLinks) : links = lk

\* GroupPositioner.place_group_at_position for a group not yet placed
PlaceGroup ==
    /\ pc = "placing"
    /\ \E name \in GroupNames(groups) \ Range(placed) :
       \E x \in PlaceXs, y \in PlaceYs :
          LET lay == PlaceGroupAt(groups, Layout, name, x, y)
          IN  /\ levels' = lay.levels
              /\ positions' = lay.positions
              /\ node_positions' = lay.node_positions
              /\ placed' = Append(placed, name)
              /\ pc' = IF GroupNames(groups) \ Range(placed) = {name}
                       THEN "check" ELSE "placing"
    /\ UNCHANGED <<err, text, groups, links, element_to_group, group_layer, changed,
                   layers, layer_idx, perm_idx, best_order, min_crossings, rows,
                   iteration, detections>>

NextFinal ==
    \/ PlaceGroup
    \/ CheckNonDownward
    \/ BuildNodes
    \/ ResolveIteration
    \/ ApplyOverrides
    \/ GenerateLatex

SpecFinal == InitFinal /\ [][NextFinal]_vars

(***************************************************************************)
(* Conflict resolution and LaTeX generation on their own: generate_latex   *)
(* from line 125 on, for layouts of three families.  Four single groups    *)
(* anywhere on a grid; a single group in a row crowded by two wide groups; *)
(* an underlined group above two single groups, with links that leave the  *)
(* group as a whole (`[p + q] -> t` is normalized to `group_0 -> t`).      *)
(***************************************************************************)
GridXs == {0, 7, 16}

GridYs == {0, 20, 40}

Scene(gs, places, lk) == [groups |-> gs, places |-> places, links |-> lk]

\* a and b are on the first row, c and d anywhere on the grid
SinglesScenes ==
    {Scene(<<Single("a"), Single("b"), Single("c"), Single("d")>>,
           <<<<xs[1], 0>>, <<xs[2], 0>>, pl[1], pl[2]>>, lk) :
        xs \in {0, 16} \X {0, 7},
        pl \in (GridXs \X GridYs) \X (GridXs \X GridYs),
        lk \in {<<>>, << <<"a", "c">> >>, << <<"a", "c">>, <<"b", "d">> >>}}

CrowdedScenes ==
    {Scene(<<Single("a"),
             Multi("group_1", <<"h1", "h2", "h3", "h4", "h5">>, FALSE),
             Multi("group_2", <<"k1", "k2", "k3", "k4">>, FALSE)>>,
           <<<<x, 0>>, <<0, 0>>, <<10, 0>>>>, <<>>) : x \in GridXs}

UnderlinedChoices ==
    {Multi("group_0", <<"p", "+", "q">>, TRUE),
     Multi("group_0", <<"p", "+", "q", "+", "r">>, TRUE)}

UnderlinedScenes ==
    {Scene(<<g, Single("t"), Single("u")>>,
           <<<<x[1], 0>>, <<x[2], 20>>, <<x[3], 20>>>>, lk) :
        g \in UnderlinedChoices,
        x \in [1..3 -> GridXs],
        lk \in {<< <<"group_0", "t">> >>,
                << <<"group_0", "t">>, <<"p", "u">> >>,
                << <<"q", "t">>, <<"group_0", "u">> >>}}

\* a above b, with a link that names z, an element of no group
UnknownNameScenes ==
    {Scene(<<Single("a"), Single("b")>>, <<<<0, 0>>, <<x, 20>>>>, lk) :
        x \in GridXs,
        lk \in {<< <<"a", "z">> >>,
                << <<"z", "b">> >>,
                << <<"a", "b">>, <<"b", "z">> >>}}

ResolveScenes ==
    SinglesScenes \cup CrowdedScenes \cup UnderlinedScenes \cup UnknownNameScenes

\* the layout in which group i of gs is at places[i]
RECURSIVE PlaceScene(_, _, _, _)
PlaceScene(gs, places, lay, i) ==
    IF i > Len(gs) THEN lay
    ELSE PlaceScene(gs, places,
                    PlaceGroupAt(gs, lay, gs[i].name, places[i][1], places[i][2]), i + 1)

InitResolve ==
    /\ NoSearchYet
    /\ text = NoText
    /\ pc = "nodes"
    /\ best_order = <<>>
    /\ changed = FALSE
    /\ layers = <<>>
    /\ layer_idx = 0
    /\ group_layer = EmptyMap
    /\ \E sc \in ResolveScenes :
          LET lay == PlaceScene(sc.groups, sc.places, NoLayout, 1)
          IN  /\ groups = sc.groups
              /\ links = sc.links
              /\ element_to_group = BuildElementToGroup(sc.groups)
              /\ levels = lay.levels
              /\ positions = lay.positions
              /\ node_positions = lay.node_positions
              /\ placed = [i \in DOMAIN sc.groups |-> sc.groups[i].name]

NextResolve ==
    \/ BuildNodes
    \/ ResolveIteration
    \/ ApplyOverrides
    \/ GenerateLatex

SpecResolve == InitResolve /\ [][NextResolve]_vars

(***************************************************************************)
(* The layout of a spec with a wide layer: nine single groups w1 .. w9 and *)
(* two single groups t1, t2, declared before or after them; w1, w2 and w3  *)
(* may each have a link to t1 or t2.  Layer 0 then has nine to eleven      *)
(* groups, more than the permutation search takes on.                      *)
(***************************************************************************)
WideNames == <<"w1", "w2", "w3", "w4", "w5", "w6", "w7", "w8", "w9">>

WideTargets == <<"t1", "t2">>

\* the link maps: w1, w2, w3 in this order, each with at most one target
WideLinks ==
    { SelectSeq(<< <<"w1", t[1]>>, <<"w2", t[2]>>, <<"w3", t[3]>> >>,
                LAMBDA l : l[2] # "")
      : t \in [1..3 -> Range(WideTargets) \cup {""}] }

InitWide ==
    /\ NoLayersYet /\ NoSearchYet /\ NoLayoutYet
    /\ text = NoText
    /\ pc = "construct"
    /\ best_order = <<>>
    /\ \E targets_first \in BOOLEAN :
          LET names == IF targets_first THEN WideTargets \o WideNames
                                        ELSE WideNames \o WideTargets
          IN  groups = [i \in DOMAIN names |-> Single(names[i])]
    /\ links \in WideLinks

NextWide ==
    \/ Construct
    \/ RelaxPass
    \/ BuildLayers
    \/ TryOrdering
    \/ SplitRows
    \/ PlaceRows

SpecWide == InitWide /\ [][NextWide]_vars

(***************************************************************************)
(* TextFormatParser.parse on one bracketed group line: every line of at    *)
(* most MaxPlusTokens tokens over a, b, c and '+', no label twice, with or *)
(* without the underline marker.                                           *)
(***************************************************************************)
MaxPlusTokens == 4

PlusTokens == {"a", "b", "c", "+"}

PlusLines ==
    { GroupLine(TRUE, toks, ul) :
        toks \in {q \in UNION {[1..k -> PlusTokens] : k \in 1..MaxPlusTokens} :
                    \A i, j \in DOMAIN q : (i # j /\ q[i] = q[j]) => q[i] = "+"},
        ul \in BOOLEAN }

InitParse ==
    /\ NoLayersYet /\ NoSearchYet /\ NoLayoutYet
    /\ best_order = <<>>
    /\ pc = "parse"
    /\ groups = <<>>
    /\ links = <<>>
    /\ \E line \in PlusLines :
          text = [group_lines |-> <<line>>, link_lines |-> <<>>, present |-> TRUE]

NextParse == ParseText

SpecParse == InitParse /\ [][NextParse]_vars

(***************************************************************************)
(* Properties of the layering                                              *)
(***************************************************************************)
\* the links between layering nodes, and those between two different nodes
NodeEdges(e2g, lk) == {<<NodeOf(e2g, lk[i][1]), NodeOf(e2g, lk[i][2])>> : i \in DOMAIN lk}

CrossEdges(e2g, lk) == {e \in NodeEdges(e2g, lk) : e[1] # e[2]}

\* the transitive closure of a set of edges
RECURSIVE Closure(_)
Closure(R) ==
    LET step == R \cup {<<x[1][1], x[2][2]>> : x \in {y \in R \X R : y[1][2] = y[2][1]}}
    IN  IF step = R THEN R ELSE Closure(step)

Cyclic(R) == \E p \in Closure(R) : p[1] = p[2]

\* the layering loop has exited and the layer lists exist
LayersBuilt == pc \in {"order", "split", "place", "check"} \/ (pc = "raised" /\ err.type = "TypeError")

\* the y the layout gives the layer of group g (line 168)
LevelOf(g) == group_layer[g] * y_spacing

\* the links whose ends are elements of two different groups
CrossGroupLinks ==
    {i \in DOMAIN links :
        /\ links[i][1] \in DOMAIN element_to_group
        /\ links[i][2] \in DOMAIN element_to_group
        /\ element_to_group[links[i][1]] # element_to_group[links[i][2]]}

\* C1: once the layering of an acyclic spec is done, every link between two
\* different groups has the level of its source group strictly greater than
\* the level of its target group.
C1_SourceLevelAboveTarget ==
    LayersBuilt =>
        \A i \in CrossGroupLinks :
            LevelOf(element_to_group[links[i][1]]) > LevelOf(element_to_group[links[i][2]])

\* every link joins two elements that are in groups
AllEndsGrouped ==
    \A i \in DOMAIN links :
        links[i][1] \in DOMAIN element_to_group /\ links[i][2] \in DOMAIN element_to_group

\* C2: the layer-assignment loop terminates for every spec whose links join
\* elements of different groups, also when these links form a cycle among
\* the groups: the run never gets into the loop without exit.
C2_CycleTerminates ==
    (pc = "diverges" /\ AllEndsGrouped) =>
        \E e \in NodeEdges(element_to_group, links) : e[1] = e[2]

\* C3: a link inside one group imposes no constraint: when the links between
\* different groups form no cycle, the loop terminates whether or not there
\* are links inside a group.
C3_SameGroupLinkTerminates ==
    (pc = "diverges" /\ AllEndsGrouped) => Cyclic(CrossEdges(element_to_group, links))

\* the layout computation has started
LayoutStarted == pc \in {"relax", "diverges"} \/ LayersBuilt

\* C4: a spec in which two different groups list the same label never gets
\* as far as the layout computation, whether it came as text or as a
\* normalized dictionary.
C4_SharedLabelRejected == LayoutStarted => SharedLabels(groups) = {}

\* one y-unit, the offset of `row_y = y_level + i`
RowOffset == 10

\* C8: when a layer was split into several rows and its placement is over,
\* every group of row i (from 0) is at y = base + i.
C8_RowsOnOwnLevels ==
    (Len(rows) > 1 /\ pc # "place") =>
        \A i \in DOMAIN rows : \A g \in Range(rows[i]) :
            g \in DOMAIN levels /\ levels[g] = y_level + (i - 1) * RowOffset

\* the places of group g in the layer lists
PlacesOf(g) == {<<k, i>> \in (DOMAIN layers) \X (1..Len(groups)) :
                    i <= Len(layers[k]) /\ layers[k][i] = g}

IndexIn(s, x) == CHOOSE i \in DOMAIN s : s[i] = x

\* C9: the layer lists hold every declared group exactly once, and every
\* layer list is in declaration order.
C9_LayersPartitionInOrder ==
    LayersBuilt =>
        /\ \A g \in GroupNames(groups) : Cardinality(PlacesOf(g)) = 1
        /\ \A k \in DOMAIN layers : \A i, j \in DOMAIN layers[k] :
              i < j => IndexIn(group_input_order(groups), layers[k][i])
                          < IndexIn(group_input_order(groups), layers[k][j])

\* C9 witness: the layer lists are built and one of them holds two groups
C9_Witness == LayersBuilt /\ \E k \in DOMAIN layers : Len(layers[k]) >= 2

(***************************************************************************)
(* Properties of the row split                                             *)
(***************************************************************************)
RECURSIVE SumWidths(_, _, _)
SumWidths(gs, row, i) ==
    IF i > Len(row) THEN 0 ELSE GroupWidth(gs, row[i]) + SumWidths(gs, row, i + 1)

\* the span of a row: its groups' widths and the gaps between them
RowSpan(gs, row) ==
    SumWidths(gs, row, 1) + (IF Len(row) > 1 THEN (Len(row) - 1) * BETWEEN_GROUP_SPACING ELSE 0)

C10_FirstMinimalOrdering ==
    (pc = "split" /\ Len(layers[layer_idx + 1]) <= PermSearchMax) =>
        LET perms == Perms(layers[layer_idx + 1])
            cnt(k) == TrialCrossings(groups, Layout, links, perms[k], y_level)
        IN  /\ perms[1] = layers[layer_idx + 1]
            /\ \E k \in DOMAIN perms :
                  /\ best_order = perms[k]
                  /\ min_crossings = cnt(k)
                  /\ \A j \in DOMAIN perms :
                        cnt(j) >= cnt(k) /\ (j < k => cnt(j) > cnt(k))

\* C10 witness: the search ended on an ordering other than the input order,
\* and no ordering is free of crossings
C10_Witness ==
    /\ pc = "split"
    /\ Len(layers[layer_idx + 1]) >= 2
    /\ best_order # layers[layer_idx + 1]
    /\ min_crossings > 0

C6_SlotsKeepSpacing ==
    \A g \in DOMAIN positions :
        LET elems == positions[g].elements
        IN  \A i \in DOMAIN elems :
                IF elems[i] \in Separators
                THEN elems[i] \notin DOMAIN node_positions
                ELSE elems[i] \in DOMAIN node_positions =>
                        node_positions[elems[i]].x
                            = positions[g].x + (i - 1) * WITHIN_GROUP_SPACING

(***************************************************************************)
(* Determinism of the layering and of the ordering                         *)
(***************************************************************************)
\* the `while changed` loop run to its exit from layer map gl with the links
\* iterated in the order lk; exits is FALSE when the loop has no exit
RECURSIVE LayerFixpoint(_, _, _, _)
LayerFixpoint(gl, gs, e2g, lk) ==
    LET st == RelaxOnePass(gl, e2g, lk)
    IN  IF ~st.changed THEN [exits |-> TRUE, layer |-> st.layer]
        ELSE IF NoExit(st.layer, gs, e2g, lk) THEN [exits |-> FALSE, layer |-> EmptyMap]
        ELSE LayerFixpoint(st.layer, gs, e2g, lk)

\* `for ordering in perms` run to its end from trial i: the best ordering
RECURSIVE SearchFrom(_, _, _, _, _, _, _, _)
SearchFrom(gs, lay, lk, perms, y, i, best, least) ==
    IF i > Len(perms) THEN best
    ELSE LET c == TrialCrossings(gs, lay, lk, perms[i], y)
         IN  IF Improves(c, least)
             THEN IF c = 0 THEN perms[i]
                  ELSE SearchFrom(gs, lay, lk, perms, y, i + 1, perms[i], c)
             ELSE SearchFrom(gs, lay, lk, perms, y, i + 1, best, least)

\* the link map in every iteration order
LinkOrders == Range(Perms(links))

\* C12: the layer assignment the layering loop ends with, and the ordering
\* the search picks for a layer, are those of a run that iterates the link
\* map in any other order; a run whose loop has no exit has none in any
\* order.  (The set of group names is only read through the declaration
\* order of the groups.)
C12_LayoutDeterministic ==
    \A lk \in LinkOrders :
        LET fix == LayerFixpoint(InitialGroupLayer(groups, element_to_group, lk),
                                 groups, element_to_group, lk)
        IN  /\ (pc = "relax" /\ ~changed) =>
                  /\ fix.exits
                  /\ fix.layer = group_layer
                  /\ DOMAIN group_layer # {} =>
                        BuildLayerLists(groups, fix.layer)
                            = BuildLayerLists(groups, group_layer)
            /\ pc = "diverges" => ~fix.exits
            /\ pc = "split" =>
                  SearchFrom(groups, Layout, lk, CandidateOrderings(layers[layer_idx + 1]),
                             y_level, 1, <<>>, Infinity) = best_order

\* C12 witness: the loop has exited with a chain of two links, the second
\* link of the map feeding the first
C12_Witness ==
    /\ pc = "relax" /\ ~changed
    /\ Len(links) = 2
    /\ NodeOf(element_to_group, links[2][2]) = NodeOf(element_to_group, links[1][1])
    /\ \E n \in DOMAIN group_layer : group_layer[n] = 2

\* C12 witness of the ordering: the search over a layer of three groups
\* has ended on an ordering other than the declared one
C12_OrderingWitness ==
    /\ pc = "split"
    /\ Len(links) >= 2
    /\ Len(best_order) = 3
    /\ best_order # layers[layer_idx + 1]

(***************************************************************************)
(* The ordering of a layer too wide for the permutation search             *)
(***************************************************************************)
\* the x of the positioned targets of the links that leave group g, in link
\* order
TargetXs(g, gs, lk, np) ==
    LET from == SelectSeq(lk, LAMBDA l : l[1] \in Range(Elements(GroupNamed(gs, g)))
                                          /\ l[2] \in DOMAIN np)
    IN  [i \in DOMAIN from |-> np[from[i][2]].x]

\* LayoutEngine._compute_median_target_x: the entry at index len // 2 of the
\* sorted target x, 0.0 for a group none of whose targets is positioned
MedianTargetX(g, gs, lk, np) ==
    LET xs == TargetXs(g, gs, lk, np)
        m == Len(xs) \div 2
    IN  IF xs = <<>> THEN 0
        ELSE CHOOSE v \in Range(xs) :
                /\ Cardinality({i \in DOMAIN xs : xs[i] < v}) <= m
                /\ m < Cardinality({i \in DOMAIN xs : xs[i] <= v})

\* The layout the trial placements of lines 176-191 arrive at for the layers
\* from index k + 1 on, above layout lay: each layer placed from x = 0.0 in
\* the ordering its search picks
RECURSIVE TrialLayoutFrom(_, _, _, _, _)
TrialLayoutFrom(gs, lk, lys, lay, k) ==
    IF k >= Len(lys) THEN lay
    ELSE LET order == SearchFrom(gs, lay, lk, CandidateOrderings(lys[k + 1]),
                                 k * y_spacing, 1, <<>>, Infinity)
         IN  TrialLayoutFrom(gs, lk, lys,
                             PlaceSequentially(gs, lay, order, 1, 0, k * y_spacing), k + 1)

\* the ordering of the layer being placed has just been chosen, and the
\* layer is too wide for the permutation search
WideLayerOrdered ==
    /\ pc = "split"
    /\ Len(layers[layer_idx + 1]) > PermSearchMax

\* C11: for a layer of more than 8 groups a single ordering is tried, and
\* it lists the groups in non-decreasing order of the median x of their
\* link targets, the targets being where the layout puts them.
C11_WideLayerByTargetX ==
    WideLayerOrdered =>
        LET lay == TrialLayoutFrom(groups, links, layers,
                       PlaceSequentially(groups, Layout, best_order, 1, 0, y_level),
                       layer_idx + 1)
            tx(g) == MedianTargetX(g, groups, links, lay.node_positions)
        IN  /\ perm_idx = 1
            /\ \A i, j \in DOMAIN best_order :
                  i < j => tx(best_order[i]) <= tx(best_order[j])

(***************************************************************************)
(* Properties of conflict detection and resolution                         *)
(***************************************************************************)
\* the passes of resolve_conflicts_iteratively run so far, in order
ResolvePasses == SelectSeq(detections, LAMBDA d : d.by = "resolve")

\* the number of conflicts a detection pass found
TotalOf(d) ==
    Cardinality(d.text_overlaps) + Cardinality(d.arrow_crossings)
        + Cardinality(d.arrow_through_text)

\* resolve_conflicts_iteratively has returned
ResolutionReturned ==
    pc \in {"overrides", "generate", "done"} \/ (pc = "raised" /\ err.type = "KeyError")

\* num / den lies strictly between 0 and 1
StrictlyInside(num, den) ==
    IF den > 0 THEN 0 < num /\ num < den ELSE den < num /\ num < 0

\* the arrows a and b share no end, are not parallel, and the point where
\* their lines meet lies strictly inside both segments
ProperCrossing(a, b) ==
    LET den == (a.sx - a.tx) * (b.sy - b.ty) - (a.sy - a.ty) * (b.sx - b.tx)
        t == (a.sx - b.sx) * (b.sy - b.ty) - (a.sy - b.sy) * (b.sx - b.tx)
        u == (a.sy - a.ty) * (a.sx - b.sx) - (a.sx - a.tx) * (a.sy - b.sy)
    IN  /\ {a.source, a.target} \cap {b.source, b.target} = {}
        /\ den # 0
        /\ StrictlyInside(t, den)
        /\ StrictlyInside(u, den)

\* C13: a detection pass reports a pair of arrows as crossing if and only if
\* the two share no end element, are not parallel and meet strictly inside
\* both segments; an end that only touches the other arrow is no crossing.
C13_CrossingIffProperIntersection ==
    \A k \in DOMAIN detections :
        \A i, j \in DOMAIN detections[k].arrows :
            i < j => (<<i, j>> \in detections[k].arrow_crossings
                        <=> ProperCrossing(detections[k].arrows[i], detections[k].arrows[j]))

\* the links that leave a positioned underlined group as a whole and whose
\* target has a node
GroupSourcedLinks ==
    {i \in DOMAIN links :
        /\ links[i][1] = NodeOf(element_to_group, links[i][1])
        /\ links[i][1] \in GroupNames(groups)
        /\ GroupNamed(groups, links[i][1]).underline
        /\ links[i][1] \in DOMAIN positions
        /\ links[i][2] \in DOMAIN node_positions}

\* the x of the centre slot of positioned group g
CenterX(g) ==
    positions[g].x + (Len(positions[g].elements) \div 2) * WITHIN_GROUP_SPACING

C15_ResolutionBounded ==
    LET passes == ResolvePasses
    IN  /\ Len(passes) <= max_iterations
        /\ pc = "resolve" => Len(passes) < max_iterations
        /\ \A k \in DOMAIN passes :
              k < Len(passes) => (TotalOf(passes[k]) > 0 /\ passes[k].shifted # "")
        /\ ResolutionReturned =>
              /\ Len(passes) >= 1
              /\ Len(passes) < max_iterations =>
                    \/ TotalOf(passes[Len(passes)]) = 0
                    \/ passes[Len(passes)].shifted = ""

\* C15 witness: resolution used up its budget, the last pass still moving a
\* group
C15_Witness ==
    /\ ResolutionReturned
    /\ Len(ResolvePasses) = max_iterations
    /\ ResolvePasses[max_iterations].shifted # ""

\* C16: a pass that finds more than 1.5 times as many conflicts as the pass
\* before it moves no group and is the last pass.
C16_StopsOnEscalation ==
    LET passes == ResolvePasses
    IN  \A k \in DOMAIN passes :
            (k > 1 /\ 2 * TotalOf(passes[k]) > 3 * TotalOf(passes[k - 1])) =>
                (passes[k].shifted = "" /\ k = Len(passes) /\ pc # "resolve")

\* the arrow crossings a detection pass would find in the present layout
CrossingsNow ==
    DetectAllConflicts(node_positions, NodeOrder(placed, positions), links,
                       element_to_group, groups,
                       GroupCenterNodes(groups, positions, levels),
                       positions, levels).arrow_crossings

\* C17: the layout conflict resolution returns has no more arrow crossings
\* than the layout it was given.
C17_CrossingsNotIncreased ==
    pc = "overrides" =>
        Cardinality(CrossingsNow) <= Cardinality(ResolvePasses[1].arrow_crossings)

\* C18: a pass that finds no text overlap but an arrow crossing shifts a
\* group, and resolution goes on with the next pass unless the budget is
\* used up.
C18_CrossingPassShifts ==
    LET passes == ResolvePasses
    IN  \A k \in DOMAIN passes :
            (passes[k].text_overlaps = {} /\ passes[k].arrow_crossings # {}) =>
                /\ passes[k].shifted # ""
                /\ k < Len(passes) \/ pc = "resolve" \/ k = max_iterations

\* C19: once the spec is parsed, no step of a generation run modifies the
\* groups or the link map; a detection pass that is followed by no shift
\* leaves the layout maps as they are, and conflict resolution never
\* changes a level.
C19_SpecReadOnly ==
    [][/\ pc # "parse" => (groups' = groups /\ links' = links)
       /\ (Len(detections') > Len(detections)
             /\ detections'[Len(detections')].shifted = "") =>
                (levels' = levels /\ positions' = positions
                    /\ node_positions' = node_positions)
       /\ pc = "resolve" => levels' = levels]_vars

\* C19 witness: the run is over and conflict resolution has moved a group
C19_Witness ==
    /\ pc = "done"
    /\ \E k \in DOMAIN detections : detections[k].shifted # ""

(***************************************************************************)
(* Properties of the validation of '+'                                     *)
(***************************************************************************)
\* real element, '+', real element, ..., from a real element to a real
\* element
StrictlyAlternates(elems) ==
    /\ Len(elems) % 2 = 1
    /\ \A i \in DOMAIN elems : (elems[i] = "+") <=> (i % 2 = 0)

\* the bracketed groups of the text that list '+'
GroupsWithPlus(gs) ==
    {i \in DOMAIN gs : gs[i].has_elements /\ "+" \in Range(gs[i].elements)}

\* C20: a text whose labels are unique is accepted by the parser if every
\* bracketed group that lists '+' strictly alternates real element, '+',
\* real element from a real element to a real element, and is rejected
\* with a ValueError otherwise.
C20_PlusAcceptedIffAlternating ==
    [][(pc = "parse" /\ DuplicateLabels(ParseGroupLines(text.group_lines)) = {}) =>
          LET gs == ParseGroupLines(text.group_lines)
          IN  IF \A i \in GroupsWithPlus(gs) : StrictlyAlternates(gs[i].elements)
              THEN pc' = "construct" /\ groups' = gs
              ELSE pc' = "raised" /\ err'.type = "ValueError"]_vars

(***************************************************************************)
(* Properties of the layer-relaxation loop                                 *)
(***************************************************************************)
\* the links as edges between the names they mention
ElementEdges(lk) == {<<lk[i][1], lk[i][2]>> : i \in DOMAIN lk}

\* C27: for a spec whose links form no cycle, a pass of the relaxation loop
\* lowers no layer, leaves no group on a layer above the number of declared
\* groups, and the loop is never found to have no exit.
C27_LayersMonotoneBounded ==
    [][(pc = "relax" /\ ~Cyclic(ElementEdges(links))) =>
          /\ \A n \in DOMAIN group_layer :
                n \in DOMAIN group_layer' /\ group_layer'[n] >= group_layer[n]
          /\ \A g \in GroupNames(groups) : group_layer'[g] <= Len(groups)
          /\ pc' # "diverges"]_vars

\* the `while changed` loop has exited
LoopExited == (pc = "relax" /\ ~changed) \/ LayersBuilt

\* the declared groups no link points to
UntargetedGroups ==
    {g \in GroupNames(groups) :
        \A i \in DOMAIN links : NodeOf(element_to_group, links[i][2]) # g}

\* C28: when the relaxation loop has exited, every link has the layer of
\* its target's group at least one above the layer of its source's group,
\* and every group no link points to is on layer 0.
C28_ExitLayersRespectLinks ==
    LoopExited =>
        /\ \A i \in DOMAIN links :
              group_layer[NodeOf(element_to_group, links[i][2])]
                  >= group_layer[NodeOf(element_to_group, links[i][1])] + 1
        /\ \A g \in UntargetedGroups : group_layer[g] = 0

\* C28 witness: the loop has exited on a chain of two links, with a group
\* on layer 2 and a group no link points to
C28_Witness ==
    /\ pc = "relax" /\ ~changed
    /\ Len(links) = 2
    /\ UntargetedGroups # {}
    /\ \E g \in GroupNames(groups) : group_layer[g] = 2

(***************************************************************************)
(* The frame of a pass of conflict resolution                              *)
(***************************************************************************)
\* the groups whose entry of positions the step changes
MovedGroups == {g \in DOMAIN positions : positions'[g] # positions[g]}

\* C30: a pass of conflict resolution changes the start x of at most one
\* group, by exactly +1.0 and with its elements unchanged, changes no level
\* and no y of a node, and adds or drops no entry of the layout.
C30_PassShiftsOneGroupRight ==
    [][pc = "resolve" =>
          /\ Cardinality(MovedGroups) <= 1
          /\ \A g \in MovedGroups :
                /\ positions'[g].x = positions[g].x + OverlapShift
                /\ positions'[g].elements = positions[g].elements
          /\ DOMAIN positions' = DOMAIN positions
          /\ levels' = levels
          /\ DOMAIN node_positions' = DOMAIN node_positions
          /\ \A e \in DOMAIN node_positions :
                node_positions'[e].y = node_positions[e].y]_vars

\* C30 witness: two passes in a row have each moved a group
C30_Witness ==
    /\ Len(ResolvePasses) >= 2
    /\ ResolvePasses[1].shifted # ""
    /\ ResolvePasses[2].shifted # ""

(***************************************************************************)
(* Properties of generate_latex as a whole                                 *)
(***************************************************************************)
\* the names a link may mention: the elements of the groups and the names
\* of the groups
KnownNames == DOMAIN element_to_group \cup GroupNames(groups)

\* C21: a run that returns LaTeX has no link that names an element of no
\* group, and a run that raises over such a name has the name in its
\* error.
C21_UnknownNameRejected ==
    /\ pc = "done" =>
          \A i \in DOMAIN links : links[i][1] \in KnownNames /\ links[i][2] \in KnownNames
    /\ (pc = "raised" /\ err.type = "KeyError") => err.labels \cap KnownNames = {}

\* C22: the override loop leaves every positioned group that has an
\* override_position (x, y) at start x = x and level = y, and every other
\* group where conflict resolution left it; nothing moves a group between
\* the override loop and the return.
C22_OverridesPinGroups ==
    [][/\ pc = "overrides" =>
            \A i \in DOMAIN groups :
                LET g == groups[i]
                IN  g.name \in DOMAIN positions =>
                        IF g.override # NoOverride
                        THEN /\ positions'[g.name].x = g.override[1]
                             /\ levels'[g.name] = g.override[2]
                        ELSE /\ positions'[g.name] = positions[g.name]
                             /\ levels'[g.name] = levels[g.name]
       /\ pc = "generate" => (positions' = positions /\ levels' = levels)]_vars

\* C22 witness: LaTeX was returned for a layout in which conflict
\* resolution had shifted a group with an override, next to a group without
C22_Witness ==
    /\ pc = "done"
    /\ \E i, j \in DOMAIN groups :
          /\ groups[i].override # NoOverride
          /\ \E k \in DOMAIN detections : detections[k].shifted = groups[i].name
          /\ positions[groups[i].name].x = groups[i].override[1]
          /\ groups[j].override = NoOverride

\* C26: a run on the spec with no groups and no links never raises once
\* DiagramGenerator is constructed (changed is FALSE only after the exit
\* of the relaxation loop).
C26_EmptySpecGenerates ==
    (groups = <<>> /\ links = <<>> /\ ~changed) => pc # "raised"

(***************************************************************************)
(* LayoutEngine.compute_layout_bottom_up: strict topological layering.     *)
(* group_layer holds group_depth, layers the list the method builds, and   *)
(* all_groups (a Python set) is iterated in an order the run chooses.      *)
(***************************************************************************)
\* elem in outgoing
HasOutgoingKey(lk, n) == \E i \in DOMAIN lk : lk[i][1] = n

\* outgoing[n]
TargetsOf(lk, n) == {lk[i][2] : i \in {j \in DOMAIN lk : lk[j][1] = n}}

\* the has_outgoing flag of the bottom-layer scan
TopoHasOutgoing(gs, lk, g) ==
    LET obj == GroupNamed(gs, g)
    IN  \/ obj.has_elements /\ \E e \in Range(obj.elements) : HasOutgoingKey(lk, e)
        \/ HasOutgoingKey(lk, g)

\* "any target is in current group"
TargetsReach(gs, targets, current) ==
    LET cur == GroupNamed(gs, current)
    IN  IF cur.has_elements
        THEN \E t \in targets : t \in Range(cur.elements)
        ELSE current \in targets

\* the points_to_current flag: element-level links, then group-level links
PointsToCurrent(gs, lk, g, current) ==
    LET obj == GroupNamed(gs, g)
    IN  \/ obj.has_elements /\
           \E e \in Range(obj.elements) :
              HasOutgoingKey(lk, e) /\ TargetsReach(gs, TargetsOf(lk, e), current)
        \/ HasOutgoingKey(lk, g) /\ TargetsReach(gs, TargetsOf(lk, g), current)

\* the while-queue loop: keys lists the keys of group_depth in insertion
\* order, which are also the visited groups; a group met again is skipped
RECURSIVE TopoBFS(_, _, _, _, _, _)
TopoBFS(gs, lk, all_groups, queue, depth, keys) ==
    IF queue = <<>> THEN [depth |-> depth, keys |-> keys]
    ELSE LET current == Head(queue)
             found == SelectSeq(all_groups,
                         LAMBDA g : g \notin Range(keys) /\
                                    PointsToCurrent(gs, lk, g, current))
             depth2 == [n \in DOMAIN depth \cup Range(found) |->
                           IF n \in DOMAIN depth THEN depth[n]
                           ELSE depth[current] + 1]
         IN  TopoBFS(gs, lk, all_groups, Tail(queue) \o found, depth2, keys \o found)

\* group_depth at the end of _compute_topological_layers
TopologicalDepth(gs, lk, all_groups) ==
    LET bottom_groups == SelectSeq(all_groups, LAMBDA g : ~TopoHasOutgoing(gs, lk, g))
        bfs == TopoBFS(gs, lk, all_groups, bottom_groups,
                       [n \in Range(bottom_groups) |-> 0], bottom_groups)
        unvisited == SelectSeq(all_groups, LAMBDA g : g \notin Range(bfs.keys))
    IN  [depth |-> [n \in Range(all_groups) |->
                       IF n \in DOMAIN bfs.depth THEN bfs.depth[n] ELSE 0],
         keys |-> bfs.keys \o unvisited]

\* the layers list: layers[depth].append(group) in the order of group_depth
TopologicalLayers(gs, lk, all_groups) ==
    LET r == TopologicalDepth(gs, lk, all_groups)
        max_depth == IF Len(all_groups) = 0 THEN 0
                     ELSE MaxOf({r.depth[n] : n \in DOMAIN r.depth})
    IN  [k \in 1..(max_depth + 1) |->
            SelectSeq(r.keys, LAMBDA g : r.depth[g] = k - 1)]

ComputeTopologicalLayers ==
    /\ pc = "topo"
    /\ \E all_groups \in Range(Perms(group_input_order(groups))) :
          /\ group_layer' = TopologicalDepth(groups, links, all_groups).depth
          /\ layers' = TopologicalLayers(groups, links, all_groups)
    /\ layer_idx' = 0
    /\ pc' = "strict_place"
    /\ UNCHANGED <<err, text, groups, links, element_to_group, changed, perm_idx,
                   best_order, min_crossings, rows, levels, positions,
                   node_positions, placed, iteration, detections>>

\* one turn of the placement loop: an empty layer uses no row, any other
\* layer reaches place_groups_on_row(..., force_sequential=True)
PlaceStrictLayer ==
    /\ pc = "strict_place"
    /\ IF layers[layer_idx + 1] # <<>>
       THEN /\ pc' = "raised"
            /\ err' = Raised("TypeError", {}, {}, {})
            /\ layer_idx' = layer_idx
       ELSE /\ err' = err
            /\ pc' = IF layer_idx + 1 < Len(layers) THEN "strict_place" ELSE "returned"
            /\ layer_idx' = IF layer_idx + 1 < Len(layers) THEN layer_idx + 1
                            ELSE layer_idx
    /\ UNCHANGED <<text, groups, links, element_to_group, group_layer, changed, layers,
                   perm_idx, best_order, min_crossings, rows, levels, positions,
                   node_positions, placed, iteration, detections>>

\* the group lists the layering is run on: none, a two-element group with
\* two standalone elements, and four standalone elements
TopoGroupLists ==
    { <<>>,
      <<Multi("group_0", <<"p", "q">>, FALSE), Single("b"), Single("c")>>,
      <<Single("a"), Single("b"), Single("c"), Single("d")>> }

\* the elements of a group list, in declaration order
RECURSIVE ElementsInOrder(_, _)
ElementsInOrder(gs, i) ==
    IF i > Len(gs) THEN <<>> ELSE Elements(gs[i]) \o ElementsInOrder(gs, i + 1)

\* every links dict over these elements: each element has at most one
\* target, never itself
TopoLinks(gs) ==
    LET elems == ElementsInOrder(gs, 1)
    IN  { SelectSeq([i \in DOMAIN elems |-> <<elems[i], f[i]>>],
                    LAMBDA l : l[2] # "") :
            f \in {h \in [DOMAIN elems -> Range(elems) \cup {""}] :
                      \A i \in DOMAIN elems : h[i] # elems[i]} }

InitTopo ==
    /\ NoSearchYet /\ NoLayoutYet
    /\ text = NoText
    /\ best_order = <<>>
    /\ changed = TRUE
    /\ group_layer = EmptyMap
    /\ layers = <<>>
    /\ layer_idx = 0
    /\ pc = "topo"
    /\ groups \in TopoGroupLists
    /\ links \in TopoLinks(groups)
    /\ element_to_group = BuildElementToGroup(groups)

NextTopo ==
    \/ ComputeTopologicalLayers
    \/ PlaceStrictLayer

SpecTopo == InitTopo /\ [][NextTopo]_vars

\* the links between elements of different groups, as group pairs
CrossGroupEdges ==
    {p \in {<<NodeOf(element_to_group, links[i][1]),
              NodeOf(element_to_group, links[i][2])>> : i \in DOMAIN links} :
        p[1] # p[2]}

\* C25: once the strict topological layering has run on links that form no
\* cycle among the groups, the call does not raise, and every link between
\* elements of different groups has its source's group in a strictly higher
\* layer than its target's group.
C25_StrictLayersOrderLinks ==
    (pc \in {"strict_place", "raised", "returned"} /\ ~Cyclic(CrossGroupEdges)) =>
        /\ pc # "raised"
        /\ \A p \in CrossGroupEdges : group_layer[p[1]] > group_layer[p[2]]

(***************************************************************************)
(* RowPlacer.split_rows_until_fit, as place_groups_on_row_with_overflow    *)
(* calls it: rows starts as the one row of the groups to place, the        *)
(* classification comes from the incoming links, the maximum width is      *)
(* MAX_ROW_WIDTH.                                                          *)
(***************************************************************************)
\* MAX_ROW_WIDTH = 20.0
MAX_ROW_WIDTH == 200

\* the inter-group spacing added by calculate_row_width (2.0)
RowGap == 20

\* the longest list of groups handed to the row split
MaxOverflowGroups == 3

\* calculate_row_width
CalculateRowWidth(gs, group_names) ==
    IF group_names = <<>> THEN 0
    ELSE SumWidths(gs, group_names, 1) + (Len(group_names) - 1) * RowGap

\* _group_has_incoming: some link targets an element of the group
GroupHasIncoming(gs, lk, name) ==
    LET g == GroupNamed(gs, name)
    IN  IF g.has_elements
        THEN \E e \in Range(g.elements) : \E i \in DOMAIN lk : lk[i][2] = e
        ELSE \E i \in DOMAIN lk : lk[i][2] = name

\* classify_groups_by_incoming
GroupsWithIncoming(gs, lk, group_names) ==
    SelectSeq(group_names, LAMBDA n : GroupHasIncoming(gs, lk, n))

GroupsWithoutIncoming(gs, lk, group_names) ==
    SelectSeq(group_names, LAMBDA n : ~GroupHasIncoming(gs, lk, n))

\* select_groups_by_priority
SelectGroupsByPriority(row_groups, with_incoming, without_incoming) ==
    LET first == SelectSeq(row_groups, LAMBDA g : g \in Range(with_incoming))
    IN  IF first # <<>> THEN first
        ELSE SelectSeq(row_groups, LAMBDA g : g \in Range(without_incoming))

\* _get_group_target_x: the x of the first target of the group's first
\* element (or of the group's own name), 6.0 when there is none
GroupTargetX(gs, lk, nodes, name) ==
    LET g == GroupNamed(gs, name)
        key == IF g.has_elements THEN g.elements[1] ELSE name
    IN  IF HasOutgoingKey(lk, key)
        THEN LET target == lk[CHOOSE i \in DOMAIN lk : lk[i][1] = key][2]
             IN  IF target \in DOMAIN nodes THEN nodes[target].x ELSE 60
        ELSE 60

\* list.sort(key=...): a stable sort, by insertion from the left
RECURSIVE InsertByKey(_, _, _, _)
InsertByKey(sorted, g, k, key) ==
    IF k > Len(sorted) THEN Append(sorted, g)
    ELSE IF key[sorted[k]] > key[g]
         THEN SubSeq(sorted, 1, k - 1) \o <<g>> \o SubSeq(sorted, k, Len(sorted))
         ELSE InsertByKey(sorted, g, k + 1, key)

RECURSIVE StableSortByKey(_, _, _)
StableSortByKey(s, n, key) ==
    IF n = 0 THEN <<>>
    ELSE InsertByKey(StableSortByKey(s, n - 1, key), s[n], 1, key)

\* sort_groups_by_distance_from_center
SortGroupsByDistanceFromCenter(gs, lk, nodes, groups_to_move) ==
    LET distance == [g \in Range(groups_to_move) |->
                        Abs(GroupTargetX(gs, lk, nodes, g) - 60)]
    IN  StableSortByKey(groups_to_move, Len(groups_to_move), distance)

\* move_groups_until_fit: the groups of the sorted list are moved one by one
\* until what stays fits; keep is empty when nothing fitted
RECURSIVE MoveGroupsUntilFit(_, _, _, _, _)
MoveGroupsUntilFit(gs, sorted_groups, row_groups, max_width, k) ==
    IF k > Len(sorted_groups)
    THEN [keep |-> <<>>, move |-> sorted_groups]
    ELSE LET move_to_next == SubSeq(sorted_groups, 1, k)
             test_keep == SelectSeq(row_groups, LAMBDA x : x \notin Range(move_to_next))
         IN  IF CalculateRowWidth(gs, test_keep) <= max_width
             THEN [keep |-> test_keep, move |-> move_to_next]
             ELSE MoveGroupsUntilFit(gs, sorted_groups, row_groups, max_width, k + 1)

\* the fallback: split the row in half
SplitInHalf(row_groups) ==
    LET mid == Len(row_groups) \div 2
    IN  [keep |-> SubSeq(row_groups, 1, mid),
         move |-> SubSeq(row_groups, mid + 1, Len(row_groups))]

\* split_overcrowded_row
SplitOvercrowdedRow(gs, lk, nodes, row_groups, with_incoming, without_incoming, max_width) ==
    LET groups_to_move == SelectGroupsByPriority(row_groups, with_incoming, without_incoming)
        sorted_groups == SortGroupsByDistanceFromCenter(gs, lk, nodes, groups_to_move)
        moved == MoveGroupsUntilFit(gs, sorted_groups, row_groups, max_width, 1)
    IN  IF groups_to_move # <<>>
        THEN IF moved.keep = <<>> THEN SplitInHalf(row_groups) ELSE moved
        ELSE SplitInHalf(row_groups)

\* the rows that are not empty and wider than the maximum
TooWideRows(gs, rws, max_width) ==
    {i \in DOMAIN rws : rws[i] # <<>> /\ CalculateRowWidth(gs, rws[i]) > max_width}

\* one turn of `while True`: the first row that is too wide is split and
\* what leaves it goes to the front of the next row
SplitFirstWideRow(gs, lk, nodes, rws, with_incoming, without_incoming, max_width) ==
    LET wide == TooWideRows(gs, rws, max_width)
        row_idx == CHOOSE i \in wide : \A j \in wide : i <= j
        parts == SplitOvercrowdedRow(gs, lk, nodes, rws[row_idx], with_incoming,
                                     without_incoming, max_width)
    IN  IF row_idx + 1 <= Len(rws)
        THEN [rws EXCEPT ![row_idx] = parts.keep,
                         ![row_idx + 1] = parts.move \o rws[row_idx + 1]]
        ELSE Append([rws EXCEPT ![row_idx] = parts.keep], parts.move)

\* a group that is wider than the maximum on its own: whichever row holds it
\* is too wide, so all_fit stays False in every turn
NeverFits(gs, rws, max_width) ==
    \E i \in DOMAIN rws : \E k \in DOMAIN rws[i] :
        CalculateRowWidth(gs, <<rws[i][k]>>) > max_width

\* the groups of all rows, row after row
RECURSIVE FlattenRows(_, _)
FlattenRows(rws, i) ==
    IF i > Len(rws) THEN <<>> ELSE rws[i] \o FlattenRows(rws, i + 1)

SplitRowsUntilFit ==
    /\ pc = "split_rows"
    /\ LET given == FlattenRows(rows, 1)
           with_incoming == GroupsWithIncoming(groups, links, given)
           without_incoming == GroupsWithoutIncoming(groups, links, given)
       IN  IF TooWideRows(groups, rows, MAX_ROW_WIDTH) = {}
           THEN /\ rows' = rows
                /\ pc' = "fit"
           ELSE /\ rows' = SplitFirstWideRow(groups, links, node_positions, rows,
                                             with_incoming, without_incoming,
                                             MAX_ROW_WIDTH)
                /\ pc' = IF NeverFits(groups, rows, MAX_ROW_WIDTH)
                         THEN "diverges" ELSE "split_rows"
    /\ UNCHANGED <<err, text, groups, links, element_to_group, group_layer, changed,
                   layers, layer_idx, perm_idx, best_order, min_crossings, levels,
                   positions, node_positions, placed, iteration, detections>>

\* the declared groups: ten, nine and five elements in brackets and a
\* standalone element
OverflowGroups ==
    << Multi("group_0", <<"a0", "a1", "a2", "a3", "a4", "a5", "a6", "a7", "a8", "a9">>, FALSE),
       Multi("group_1", <<"b0", "b1", "b2", "b3", "b4", "b5", "b6", "b7", "b8">>, FALSE),
       Multi("group_2", <<"c0", "c1", "c2", "c3", "c4">>, FALSE),
       Single("d") >>

\* the lists of distinct group names of at most MaxOverflowGroups groups
OverflowRows ==
    {s \in UNION {[1..n -> GroupNames(OverflowGroups)] : n \in 0..MaxOverflowGroups} :
        \A i, j \in DOMAIN s : i # j => s[i] # s[j]}

\* the first element of a group (the group's name for a standalone element)
FirstElement(gs, name) == Elements(GroupNamed(gs, name))[1]

\* links of the groups of the row: each first element points at nothing, at
\* the element t placed earlier, or at the first element of another group
OverflowLinks(gs, group_names) ==
    LET firsts == [i \in DOMAIN group_names |-> FirstElement(gs, group_names[i])]
    IN  { SelectSeq([i \in DOMAIN firsts |-> <<firsts[i], f[i]>>],
                    LAMBDA l : l[2] # "") :
            f \in {h \in [DOMAIN firsts -> Range(firsts) \cup {"", "t"}] :
                      \A i \in DOMAIN firsts : h[i] # firsts[i]} }

InitOverflow ==
    /\ NoLayersYet
    /\ err = NoError
    /\ perm_idx = 0
    /\ min_crossings = Infinity
    /\ iteration = 0
    /\ detections = <<>>
    /\ text = NoText
    /\ best_order = <<>>
    /\ levels = EmptyMap
    /\ positions = EmptyMap
    /\ placed = <<>>
    /\ pc = "split_rows"
    /\ groups = OverflowGroups
    /\ \E group_names \in OverflowRows :
          /\ group_names # <<>>
          /\ rows = <<group_names>>
          /\ links \in OverflowLinks(groups, group_names)
    /\ node_positions \in {EmptyMap, [n \in {"t"} |-> [x |-> 0, y |-> 0]]}

NextOverflow == SplitRowsUntilFit

SpecOverflow == InitOverflow /\ [][NextOverflow]_vars

\* C29: a turn of the splitting loop never leaves the loop without an exit;
\* it keeps the groups of the rows, each once; and when the loop returns,
\* every row that is not empty is at most MAX_ROW_WIDTH wide.
C29_SplitTerminatesFitting ==
    [][pc = "split_rows" =>
          /\ pc' # "diverges"
          /\ Len(FlattenRows(rows', 1)) = Len(FlattenRows(rows, 1))
          /\ Range(FlattenRows(rows', 1)) = Range(FlattenRows(rows, 1))
          /\ pc' = "fit" =>
                \A i \in DOMAIN rows' :
                   rows'[i] # <<>> => CalculateRowWidth(groups, rows'[i]) <= MAX_ROW_WIDTH]_vars

(***************************************************************************)
(* DiagramGenerator.export_input_with_positions and the parse of what it   *)
(* writes.  The layout has returned levels and positions; in this          *)
(* specification coordinates are counted in hundredths of a layout unit,   *)
(* so that a position with two decimals can be written, and a coordinate   *)
(* of the exported text is the number of tenths its decimal text denotes   *)
(* ("1.2" is 12, "3" is 30).                                               *)
(***************************************************************************)
\* _round_coord: the text written for a coordinate.  A value within 1e-4 of
\* an integer is written as that integer, any other value with one decimal
\* (f"{val:.1f}").  A value halfway between two tenths is rounded on its
\* binary value: to the even tenth when the value is a multiple of 0.25,
\* which a float holds exactly, and to either neighbour otherwise.
RoundCoord(val) ==
    LET q == val \div 10
        r == val % 10
    IN  IF val % 100 = 0 THEN {q}
        ELSE IF r < 5 THEN {q}
        ELSE IF r > 5 THEN {q + 1}
        ELSE IF val % 25 = 0 THEN {IF q % 2 = 0 THEN q ELSE q + 1}
        ELSE {q, q + 1}

\* float(pos_match.group(k)): the coordinate a text denotes
FloatOfText(t) == 10 * t

\* a group line with its `at (x, y)` modifier (NoOverride when it has none)
GroupLineAt(br, toks, ul, at) ==
    [bracket |-> br, tokens |-> toks, underline |-> ul, at |-> at]

\* the line export_input_with_positions writes for a group: brackets around
\* the elements of a group that has an 'elements' key, `underline`, and the
\* position when the layout holds one for the group
ExportLine(g, lay, sx, sy) ==
    GroupLineAt(g.has_elements, Elements(g), g.underline,
                IF g.name \in DOMAIN lay.positions /\ g.name \in DOMAIN lay.levels
                THEN <<sx, sy>> ELSE NoOverride)

\* the texts the coordinates of a group can be written as
ExportTexts(g, lay) ==
    IF g.name \in DOMAIN lay.positions /\ g.name \in DOMAIN lay.levels
    THEN RoundCoord(lay.positions[g.name].x) \X RoundCoord(lay.levels[g.name])
    ELSE {<<0, 0>>}

\* _parse_single_element_group / _parse_multi_element_group with the
\* optional `at (x, y)` read back into override_position
ParseGroupLineAt(line, counter) ==
    [ParseGroupLine(line, counter) EXCEPT
        !.override = IF line.at = NoOverride THEN NoOverride
                     ELSE <<FloatOfText(line.at[1]), FloatOfText(line.at[2])>>]

ParseGroupLinesAt(lines) ==
    [i \in DOMAIN lines |-> ParseGroupLineAt(lines[i], i - 1)]

\* export_input_with_positions, after _compute_layout_bottom_up returned:
\* the overrides are applied to the levels and positions of the call, one
\* line is written per group and one `source -> target` line per link
ExportInputWithPositions ==
    /\ pc = "export"
    /\ LET lay == ApplyOverridesFrom(Layout, groups, 1)
       IN  /\ levels' = lay.levels
           /\ positions' = lay.positions
           /\ \E at \in [DOMAIN groups ->
                          UNION {ExportTexts(groups[i], lay) : i \in DOMAIN groups}] :
                 /\ \A i \in DOMAIN groups : at[i] \in ExportTexts(groups[i], lay)
                 /\ text' = [group_lines |->
                                [i \in DOMAIN groups |->
                                    ExportLine(groups[i], lay, at[i][1], at[i][2])],
                             link_lines |-> links,
                             present |-> TRUE]
    /\ pc' = "exported"
    /\ UNCHANGED <<err, groups, links, element_to_group, group_layer, changed,
                   layers, layer_idx, perm_idx, best_order, min_crossings, rows,
                   node_positions, placed, iteration, detections>>

\* parse_text_format on the exported text
ReparseExported ==
    /\ pc = "exported"
    /\ LET gs == ParseGroupLinesAt(text.group_lines)
           dup == DuplicateLabels(gs)
       IN  IF dup # {}
           THEN /\ pc' = "raised"
                /\ err' = Raised("ValueError", dup,
                                 UNION {GroupsListing(gs, e) : e \in dup}, {})
                /\ UNCHANGED <<groups, links>>
           ELSE IF \E i \in DOMAIN gs : PlusError(gs[i])
           THEN /\ pc' = "raised"
                /\ err' = Raised("ValueError", {"+"},
                                 {gs[i].name : i \in {j \in DOMAIN gs : PlusError(gs[j])}}, {})
                /\ UNCHANGED <<groups, links>>
           ELSE /\ pc' = "reparsed"
                /\ groups' = gs
                /\ links' = ParseLinkLines(text.link_lines)
                /\ err' = err
    /\ text' = NoText
    /\ UNCHANGED <<element_to_group, group_layer, changed, layers, layer_idx,
                   perm_idx, best_order, min_crossings, rows, levels, positions,
                   node_positions, placed, iteration, detections>>

\* the positions a text can give a group, in hundredths
ExportOverrides == {NoOverride, <<100, 200>>, <<125, 50>>, <<127, 0>>, <<255, 300>>}

\* the specs exported: a standalone element, a bracketed group and at most
\* one more standalone element, as the parser names and orders them
ExportGroupLists ==
    { <<[Single("a") EXCEPT !.underline = ua, !.override = oa],
        [Multi(GeneratedName(1), el, ug) EXCEPT !.override = og]>> \o tail :
         ua \in BOOLEAN, ug \in BOOLEAN,
         oa \in ExportOverrides, og \in ExportOverrides,
         el \in {<<"b", "c">>, <<"b", "+", "c">>},
         tail \in {<<>>, <<Single("d")>>} }

ExportLinkMaps ==
    { <<>>, <<<<"a", "b">>>>, <<<<"group_1", "a">>>>,
      <<<<"b", "a">>, <<"d", "c">>>> }

\* the layout the export starts from: the first two groups side by side or
\* one above the other, the third above them
ExportLayouts(gs) ==
    { [levels |-> [n \in GroupNames(gs) |->
                      IF n = "a" THEN 0 ELSE IF n = "d" THEN 400 ELSE y],
       positions |-> [n \in GroupNames(gs) |->
                         [x |-> IF n = "group_1" THEN x ELSE 0,
                          elements |-> Elements(GroupNamed(gs, n))]]] :
        x \in {0, 260}, y \in {0, 200} }

InitExport ==
    /\ NoLayersYet /\ NoSearchYet
    /\ text = NoText
    /\ best_order = <<>>
    /\ node_positions = EmptyMap
    /\ placed = <<>>
    /\ pc = "export"
    /\ groups \in ExportGroupLists
    /\ links \in ExportLinkMaps
    /\ \E lay \in ExportLayouts(groups) :
          /\ levels = lay.levels
          /\ positions = lay.positions

NextExport ==
    \/ ExportInputWithPositions
    \/ ReparseExported

SpecExport == InitExport /\ [][NextExport]_vars

\* C23: parsing the exported text succeeds and yields the same groups (in
\* order, with the same names, elements and underline flags) and the same
\* links, and each group's override_position is the position the export
\* computed for it.
C23_ExportRoundTrip ==
    [][pc = "exported" =>
          /\ pc' = "reparsed"
          /\ links' = links
          /\ DOMAIN groups' = DOMAIN groups
          /\ \A i \in DOMAIN groups :
                /\ groups'[i].name = groups[i].name
                /\ groups'[i].has_elements = groups[i].has_elements
                /\ Elements(groups'[i]) = Elements(groups[i])
                /\ groups'[i].underline = groups[i].underline
                /\ groups'[i].override =
                      <<positions[groups[i].name].x, levels[groups[i].name]>>]_vars

(***************************************************************************)
(* DiagramWebService.generate_diagram.  The request text is validated and  *)
(* parsed, then DiagramGenerator.generate_latex runs as above; err holds   *)
(* the 'error' of the result once the call has returned.  generate_latex   *)
(* returns for no text (it raises or does not end), so the statements      *)
(* after it (export, save, pdflatex, convert) are never reached and have   *)
(* no action here.                                                         *)
(***************************************************************************)
\* a request text: its group lines, its link lines and the number of its
\* comment lines
WebText(group_lines, link_lines, comments) ==
    [group_lines |-> group_lines, link_lines |-> link_lines, present |-> TRUE,
     comments |-> comments]

\* not specification_text.strip()
IsBlank(t) == t.group_lines = <<>> /\ t.link_lines = <<>> /\ t.comments = 0

\* the result (False, {'error': kind ...})
WebError(kind) == Raised(kind, {}, {}, {})

\* the exception came out of parse_text_format: the layering loop, which
\* every run of generate_latex leaves with changed = False, has not run
RaisedByParse == pc = "raised" /\ changed

\* `if not specification_text.strip(): return False, {'error': 'Empty specification'}`
WebValidate ==
    /\ pc = "web"
    /\ IF IsBlank(text)
       THEN /\ pc' = "returned"
            /\ err' = WebError("Empty specification")
       ELSE /\ pc' = "parse"
            /\ err' = err
    /\ UNCHANGED <<text, groups, links, element_to_group, group_layer, changed, layers,
                   layer_idx, perm_idx, best_order, min_crossings, rows, levels,
                   positions, node_positions, placed, iteration, detections>>

\* the two handlers: `except Exception as e` around parse_text_format and
\* the one around the whole body
WebCatch ==
    /\ pc = "raised"
    /\ pc' = "returned"
    /\ err' = IF RaisedByParse THEN WebError("Parse error")
              ELSE WebError("Unexpected error")
    /\ UNCHANGED <<text, groups, links, element_to_group, group_layer, changed, layers,
                   layer_idx, perm_idx, best_order, min_crossings, rows, levels,
                   positions, node_positions, placed, iteration, detections>>

InitWeb ==
    /\ NoLayersYet /\ NoSearchYet /\ NoLayoutYet
    /\ best_order = <<>>
    /\ pc = "web"
    /\ groups = <<>>
    /\ links = <<>>
    /\ \E lines \in GroupLineSeqs :
       \E lk \in LinkSeqs(LinkEnds(ParseGroupLines(lines)), MaxLinks) :
       \E comments \in {0, 1} :
          text = WebText(lines, lk, comments)

NextWeb ==
    \/ WebValidate
    \/ ParseText
    \/ Construct
    \/ RelaxPass
    \/ BuildLayers
    \/ TryOrdering
    \/ SplitRows
    \/ PlaceRows
    \/ CheckNonDownward
    \/ BuildNodes
    \/ ResolveIteration
    \/ ApplyOverrides
    \/ GenerateLatex
    \/ WebCatch

SpecWeb == InitWeb /\ [][NextWeb]_vars

\* the error texts of the result: the empty text, the parse error, and for
\* each of the two tools the missing tool, its failure and its timeout
NamedErrors ==
    {"Empty specification", "Parse error",
     "pdflatex not found", "LaTeX compilation failed", "LaTeX compilation timeout",
     "ImageMagick (convert) not found", "PDF to PNG conversion failed",
     "PDF conversion timeout"}

\* C24: every request is answered, and a request that fails is answered
\* with one of the errors that name the empty specification, the parse
\* error, the missing tool, the tool failure or the tool timeout.
C24_FailuresReturnNamedErrors ==
    /\ pc # "diverges"
    /\ pc = "returned" => err.type \in NamedErrors

====
